---- MODULE Spec2Model ----
(***************************************************************************)
(* Model of the ERC-4337 bundler core: MempoolManager, ReputationManager,  *)
(* BundleManager, EventsManager and ExecutionManager, with the async       *)
(* handlers cut at their awaits.                                            *)
(***************************************************************************)
EXTENDS Integers, Sequences, FiniteSets, TLC

VARIABLES
  mempool,        \* MempoolManager.mempool : sequence of MempoolEntry
  entryCount,     \* MempoolManager._entryCount : lowercase address -> count (0 = absent)
  entries,        \* ReputationManager.entries : lowercase address -> entry or NoEntry
  whitelist,      \* ReputationManager.whitelist : set of strings as given
  blackList,      \* ReputationManager.blackList : set of strings as given
  execMutex,      \* ExecutionManager.mutex : FIFO of callers, head = holder
  bundleMutex,    \* BundleManager.mutex : FIFO of callers, head = holder
  pc,             \* position of every async invocation
  loc,            \* locals of every async invocation
  maxMempoolSize, \* ExecutionManager.maxMempoolSize
  autoInterval,   \* ExecutionManager.autoInterval (0 = no auto-bundle timer)
  timers,         \* interval timers of the event loop and the two handle fields
  lastBlock,      \* EventsManager.lastBlock (0 = undefined)
  chain,          \* EntryPoint log : sequence of events, in block order
  live,           \* events delivered to the live subscription, not yet handled
  removed,        \* ops removeUserOp took from under a build in progress, not added again
  thrown,         \* the exception that left an invocation in the last step: <<p, catcher>>
  pending,        \* handleOps transactions the node accepted and has not mined yet
  tracer,         \* the BundlerCollectorTracer object of the trace under way
  trace,          \* the callbacks geth has made to it, and the open call frames
  storageMap      \* createBundle's storageMap, merged over the admitted ops

vars == <<mempool, entryCount, entries, whitelist, blackList, execMutex,
          bundleMutex, pc, loc, maxMempoolSize, autoInterval, timers,
          lastBlock, chain, live, removed, thrown, pending, tracer, trace,
          storageMap>>

\* the state of the validation tracer and of the storage map
collector == <<tracer, trace, storageMap>>

----------------------------------------------------------------------------
(* Bounds *)

MaxMempool == 3        \* intake stops being offered beyond this many entries
MaxCounter == 10002    \* reputation counters are capped at this value
MaxSeen == 2           \* single increments stop at this many above a multiple of 10000
MaxEntryCount == 3     \* intake stops being offered once some entryCount reaches this
MaxPending == 2        \* the node holds at most this many unmined handleOps transactions
MaxLoad == 6           \* intake under load stops being offered beyond this many entries
MaxBlocks == 2         \* the chain grows by at most this many blocks
MaxTrace == 6          \* a trace makes at most this many callbacks
MaxDepth == 3          \* call frames nest at most this deep

----------------------------------------------------------------------------
(* Addresses and strings *)

Null == "null"                     \* undefined / null
AddressZero == "0x00"
LowerAddrs == {"0xaa", "0xbb", "0xcc", "0xdd", "0xe1", "0xe2", "0xe3"}
UpperAddrs == {"0xAA", "0xBB", "0xCC"}
AddrStrings == LowerAddrs \cup UpperAddrs
RepAddrs == LowerAddrs \cup {AddressZero}

\* String.prototype.toLowerCase on the address spellings of the model
toLowerCase(s) ==
  CASE s = "0xAA" -> "0xaa"
    [] s = "0xBB" -> "0xbb"
    [] s = "0xCC" -> "0xcc"
    [] OTHER -> s

\* getAddr: hexlify lowercases, then the first 20 bytes; "0x" has no address
getAddr(data) == IF data = "0x" \/ data = Null THEN Null ELSE toLowerCase(data)

----------------------------------------------------------------------------
(* UserOperation and MempoolEntry *)

UserOp(s, n, ic, pd, fee, prio, cgl) ==
  [sender |-> s, nonce |-> n, initCode |-> ic, paymasterAndData |-> pd,
   maxFeePerGas |-> fee, maxPriorityFeePerGas |-> prio, callGasLimit |-> cgl]

\* EntryPoint.getUserOpHash hashes the ABI-packed op: the sender as a 20-byte
\* value (its spelling is lost), the byte strings by content.
getUserOpHash(op) ==
  [op EXCEPT !.sender = toLowerCase(@),
             !.initCode = IF @ = "0x" THEN @ ELSE toLowerCase(@),
             !.paymasterAndData = IF @ = "0x" THEN @ ELSE toLowerCase(@)]

MempoolEntry(op, prefund) ==
  [userOp |-> op, userOpHash |-> getUserOpHash(op), prefund |-> prefund]

\* StakeInfo as returned by simulateValidation, reduced to what checkStake
\* reads: the address and whether stake and unstake delay meet the minimum.
StakeInfo(addr, staked) == [addr |-> addr, staked |-> staked]
NoInfo == [addr |-> Null, staked |-> FALSE]

SeqToSet(s) == {s[i] : i \in 1..Len(s)}
RemoveAt(s, i) == SubSeq(s, 1, i - 1) \o SubSeq(s, i + 1, Len(s))
Min(a, b) == IF a < b THEN a ELSE b
Max(a, b) == IF a > b THEN a ELSE b

----------------------------------------------------------------------------
(* ReputationManager *)

OK == "OK"
THROTTLED == "THROTTLED"
BANNED == "BANNED"

BundlerReputationParams ==
  [minInclusionDenominator |-> 10, throttlingSlack |-> 10, banSlack |-> 50]
NonBundlerReputationParams ==
  [minInclusionDenominator |-> 100, throttlingSlack |-> 10, banSlack |-> 10]
params == BundlerReputationParams

NoEntry == [opsSeen |-> -1, opsIncluded |-> -1]
RepEntry(seen, incl) == [opsSeen |-> seen, opsIncluded |-> incl]

\* a status rule with strict comparisons
statusOfMutant(ent, wl, bl, addr0) ==
  LET addr == IF addr0 = Null THEN Null ELSE toLowerCase(addr0) IN
  IF addr = Null \/ addr \in wl THEN OK
  ELSE IF addr \in bl THEN BANNED
  ELSE IF ent[addr] = NoEntry THEN OK
  ELSE LET minExpectedIncluded == ent[addr].opsSeen \div params.minInclusionDenominator IN
       IF minExpectedIncluded < ent[addr].opsIncluded + params.throttlingSlack THEN OK
       ELSE IF minExpectedIncluded < ent[addr].opsIncluded + params.banSlack THEN THROTTLED
       ELSE BANNED
statusOf(ent, wl, bl, addr0) ==
  LET addr == IF addr0 = Null THEN Null ELSE toLowerCase(addr0) IN
  IF addr = Null \/ addr \in wl THEN OK
  ELSE IF addr \in bl THEN BANNED
  ELSE IF ent[addr] = NoEntry THEN OK
  ELSE LET minExpectedIncluded == ent[addr].opsSeen \div params.minInclusionDenominator IN
       IF minExpectedIncluded <= ent[addr].opsIncluded + params.throttlingSlack THEN OK
       ELSE IF minExpectedIncluded <= ent[addr].opsIncluded + params.banSlack THEN THROTTLED
       ELSE BANNED

getStatus(addr) == statusOf(entries, whitelist, blackList, addr)

_getOrCreate(ent, addr) ==
  IF ent[toLowerCase(addr)] = NoEntry
  THEN [ent EXCEPT ![toLowerCase(addr)] = RepEntry(0, 0)]
  ELSE ent

\* updateSeenStatus(addr): ignores undefined, else opsSeen++
updateSeenStatus(ent, addr) ==
  IF addr = Null THEN ent
  ELSE [_getOrCreate(ent, addr) EXCEPT ![toLowerCase(addr)].opsSeen = @ + 1]

updateIncludedStatus(ent, addr) ==
  [_getOrCreate(ent, addr) EXCEPT ![toLowerCase(addr)].opsIncluded = @ + 1]

crashedHandleOps(ent, addr) ==
  IF addr = Null THEN ent
  ELSE [_getOrCreate(ent, addr) EXCEPT ![toLowerCase(addr)] = RepEntry(@.opsSeen + 10000, 0)]

hourlyCronEntry(e) ==
  LET seen == (e.opsSeen * 23) \div 24
      incl == (seen * 23) \div 24
  IN IF incl = 0 /\ seen = 0 THEN NoEntry ELSE RepEntry(seen, incl)

hourlyCron(ent) ==
  [a \in DOMAIN ent |-> IF ent[a] = NoEntry THEN NoEntry ELSE hourlyCronEntry(ent[a])]

isWhitelisted(addr) == addr \in whitelist

\* checkBanned / checkThrottled / checkStake return the error they throw, or "ok"
checkBanned(info) ==
  IF getStatus(info.addr) # BANNED THEN "ok" ELSE "Reputation"

checkThrottled(info) ==
  IF getStatus(info.addr) # THROTTLED THEN "ok" ELSE "Reputation"

checkStake(info) ==
  IF info.addr = Null \/ isWhitelisted(info.addr) THEN "ok"
  ELSE IF getStatus(info.addr) = BANNED THEN "Reputation"
  ELSE IF ~info.staked THEN "InsufficientStake"
  ELSE "ok"

calculateMaxAllowedMempoolOpsUnstaked(entity) ==
  LET e == entries[toLowerCase(entity)] IN
  IF e = NoEntry THEN 10
  ELSE 10 + (IF e.opsSeen = 0 THEN 0 ELSE (e.opsIncluded * 10) \div e.opsSeen)
          + Min(e.opsIncluded, 10000)

----------------------------------------------------------------------------
(* MempoolManager *)

MAX_MEMPOOL_USEROPS_PER_SENDER == 4
THROTTLED_ENTITY_MEMPOOL_COUNT == 4

incrementEntryCount(ec, address) ==
  IF address = Null THEN ec ELSE [ec EXCEPT ![toLowerCase(address)] = @ + 1]

\* a count that reaches 0 is deleted; absent and 0 read the same (?? 0)
decrementEntryCount(ec, address) ==
  IF address = Null THEN ec
  ELSE IF ec[toLowerCase(address)] = 0 THEN ec
  ELSE [ec EXCEPT ![toLowerCase(address)] = @ - 1]

\* index of the first entry with the same sender string and nonce, 0 if none
_findBySenderNonce(mp, sender, nonce) ==
  LET hits == {i \in 1..Len(mp) : mp[i].userOp.sender = sender /\ mp[i].userOp.nonce = nonce}
  IN IF hits = {} THEN 0 ELSE CHOOSE i \in hits : \A j \in hits : i <= j

_findByHash(mp, hash) ==
  LET hits == {i \in 1..Len(mp) : mp[i].userOpHash = hash}
  IN IF hits = {} THEN 0 ELSE CHOOSE i \in hits : \A j \in hits : i <= j

getKnownSenders(mp) == {toLowerCase(mp[i].userOp.sender) : i \in 1..Len(mp)}

getKnownEntities(mp) ==
  ({getAddr(mp[i].userOp.paymasterAndData) : i \in 1..Len(mp)}
     \cup {getAddr(mp[i].userOp.initCode) : i \in 1..Len(mp)}) \ {Null}

\* removal of the entry at index (0 = not found): splice and three decrements
removeAt(mp, ec, index) ==
  IF index = 0 THEN [mempool |-> mp, entryCount |-> ec]
  ELSE LET userOp == mp[index].userOp IN
       [mempool |-> RemoveAt(mp, index),
        entryCount |->
          decrementEntryCount(
            decrementEntryCount(
              decrementEntryCount(ec, userOp.sender),
              getAddr(userOp.paymasterAndData)),
            getAddr(userOp.initCode))]

removeUserOp(mp, ec, userOp) ==
  removeAt(mp, ec, _findBySenderNonce(mp, userOp.sender, userOp.nonce))

\* a removal that takes the oldest entry, whatever its hash
removeUserOpByHashMutant(mp, ec, hash) == removeAt(mp, ec, IF mp = <<>> THEN 0 ELSE 1)
\* removeUserOp(hash)
removeUserOpByHash(mp, ec, hash) == removeAt(mp, ec, _findByHash(mp, hash))

\* the double product old * 1.1 is above the exact value for these old fees
\* (IEEE-754 round-to-nearest of old * 1.1, fees up to 100)
RoundsAboveExact == {50, 90, 100}

\* new >= old * 1.1 as the double comparison decides it
AtLeastTenPercentMore(new, old) ==
  IF old \in RoundsAboveExact THEN 10 * new > 11 * old ELSE 10 * new >= 11 * old

checkReplaceUserOp(oldEntry, entry) ==
  IF ~AtLeastTenPercentMore(entry.userOp.maxPriorityFeePerGas,
                            oldEntry.userOp.maxPriorityFeePerGas) THEN "InvalidFields"
  ELSE IF ~AtLeastTenPercentMore(entry.userOp.maxFeePerGas,
                                 oldEntry.userOp.maxFeePerGas) THEN "InvalidFields"
  ELSE "ok"

\* ec is _entryCount as it is when the check runs
checkReputationStatus(ec, stakeInfo, maxTxMempoolAllowedOverride) ==
  LET maxTxMempoolAllowedEntity ==
        IF maxTxMempoolAllowedOverride # -1 THEN maxTxMempoolAllowedOverride
        ELSE calculateMaxAllowedMempoolOpsUnstaked(stakeInfo.addr)
      cnt == ec[toLowerCase(stakeInfo.addr)]
  IN IF checkBanned(stakeInfo) # "ok" THEN checkBanned(stakeInfo)
     ELSE IF cnt > THROTTLED_ENTITY_MEMPOOL_COUNT /\ checkThrottled(stakeInfo) # "ok"
       THEN checkThrottled(stakeInfo)
     ELSE IF cnt > maxTxMempoolAllowedEntity THEN checkStake(stakeInfo)
     ELSE "ok"

checkReputation(ec, senderInfo, paymasterInfo, factoryInfo) ==
  LET r1 == checkReputationStatus(ec, senderInfo, MAX_MEMPOOL_USEROPS_PER_SENDER)
      r2 == IF paymasterInfo.addr = Null THEN "ok"
            ELSE checkReputationStatus(ec, paymasterInfo, -1)
      r3 == IF factoryInfo.addr = Null THEN "ok"
            ELSE checkReputationStatus(ec, factoryInfo, -1)
  IN IF r1 # "ok" THEN r1 ELSE IF r2 # "ok" THEN r2 ELSE r3

\* a check that finds no violation
checkMultipleRolesViolationMutant(mp, userOp) == "ok"
checkMultipleRolesViolation(mp, userOp) ==
  LET knownEntities == getKnownEntities(mp)
      knownSenders == getKnownSenders(mp)
      paymaster == getAddr(userOp.paymasterAndData)
      factory == getAddr(userOp.initCode)
  IN IF toLowerCase(userOp.sender) \in knownEntities THEN "OpcodeValidation"
     ELSE IF paymaster \in knownSenders THEN "OpcodeValidation"
     ELSE IF factory \in knownSenders THEN "OpcodeValidation"
     ELSE "ok"

\* MempoolManager.updateSeenStatus: the sender is counted only if checkStake
\* passes; paymaster and factory always (the aggregator is always undefined,
\* validateUserOp rejects ops with one)
mempoolUpdateSeenStatus(ent, userOp, senderInfo) ==
  LET e1 == IF checkStake(senderInfo) = "ok" THEN updateSeenStatus(ent, userOp.sender) ELSE ent
      e2 == updateSeenStatus(e1, getAddr(userOp.paymasterAndData))
  IN updateSeenStatus(e2, getAddr(userOp.initCode))

\* the three increments of the new-entry branch
incrementAll(ec, userOp) ==
  incrementEntryCount(
    incrementEntryCount(
      incrementEntryCount(ec, userOp.sender),
      getAddr(userOp.paymasterAndData)),
    getAddr(userOp.initCode))

\* addUserOp: the state it leaves and the error it throws ("ok" = none)
addUserOp(mp, ec, ent, userOp, prefund, senderInfo, paymasterInfo, factoryInfo) ==
  LET entry == MempoolEntry(userOp, prefund)
      index == _findBySenderNonce(mp, userOp.sender, userOp.nonce)
  IN IF index # 0 THEN
       LET r == checkReplaceUserOp(mp[index], entry) IN
       IF r # "ok" THEN [mempool |-> mp, entryCount |-> ec, entries |-> ent, err |-> r]
       ELSE [mempool |-> [mp EXCEPT ![index] = entry], entryCount |-> ec,
             entries |-> mempoolUpdateSeenStatus(ent, userOp, senderInfo), err |-> "ok"]
     ELSE
       LET ec1 == incrementAll(ec, userOp)
           r1 == checkReputation(ec1, senderInfo, paymasterInfo, factoryInfo)
           r2 == checkMultipleRolesViolation(mp, userOp)
       IN IF r1 # "ok" THEN [mempool |-> mp, entryCount |-> ec1, entries |-> ent, err |-> r1]
          ELSE IF r2 # "ok" THEN [mempool |-> mp, entryCount |-> ec1, entries |-> ent, err |-> r2]
          ELSE [mempool |-> Append(mp, entry), entryCount |-> ec1,
                entries |-> mempoolUpdateSeenStatus(ent, userOp, senderInfo), err |-> "ok"]

\* an insertion that puts e before the entries of equal fee
RECURSIVE InsertSortedMutant(_, _)
InsertSortedMutant(s, e) ==
  IF s = <<>> THEN <<e>>
  ELSE IF s[Len(s)].userOp.maxPriorityFeePerGas < e.userOp.maxPriorityFeePerGas
    THEN Append(s, e)
  ELSE Append(InsertSortedMutant(SubSeq(s, 1, Len(s) - 1), e), s[Len(s)])

\* stable insertion of e into a sequence sorted by maxPriorityFeePerGas
RECURSIVE InsertSorted(_, _)
InsertSorted(s, e) ==
  IF s = <<>> THEN <<e>>
  ELSE IF s[Len(s)].userOp.maxPriorityFeePerGas <= e.userOp.maxPriorityFeePerGas
    THEN Append(s, e)
  ELSE Append(InsertSorted(SubSeq(s, 1, Len(s) - 1), e), s[Len(s)])

RECURSIVE SortPrefix(_, _)
SortPrefix(mp, n) == IF n = 0 THEN <<>> ELSE InsertSorted(SortPrefix(mp, n - 1), mp[n])

\* a copy of the mempool, stably sorted by ascending maxPriorityFeePerGas
getSortedForInclusion(mp) == SortPrefix(mp, Len(mp))

----------------------------------------------------------------------------
(* EntryPoint log and EventsManager *)

UserOperationEvent(op, bn) ==
  [event |-> "UserOperationEvent", userOpHash |-> getUserOpHash(op),
   sender |-> toLowerCase(op.sender),
   paymaster |-> IF getAddr(op.paymasterAndData) = Null THEN AddressZero
                 ELSE getAddr(op.paymasterAndData),
   factory |-> Null, blockNumber |-> bn]

AccountDeployed(op, bn) ==
  [event |-> "AccountDeployed", userOpHash |-> getUserOpHash(op),
   sender |-> toLowerCase(op.sender), paymaster |-> AddressZero,
   factory |-> getAddr(op.initCode), blockNumber |-> bn]

\* the events handleOps emits for one op, in emission order
EventsOfOp(op, bn) ==
  (IF getAddr(op.initCode) = Null THEN <<>> ELSE <<AccountDeployed(op, bn)>>)
    \o <<UserOperationEvent(op, bn)>>

RECURSIVE EventsOfBundle(_, _)
EventsOfBundle(ops, bn) ==
  IF ops = <<>> THEN <<>> ELSE EventsOfOp(Head(ops), bn) \o EventsOfBundle(Tail(ops), bn)

blockNumber == IF chain = <<>> THEN 0 ELSE chain[Len(chain)].blockNumber

\* hashes of the ops the EntryPoint has executed
minedHashes == {chain[i].userOpHash : i \in 1..Len(chain)}

\* _includedAddress: credit an address string of at least 42 characters
_includedAddress(ent, data) ==
  IF data = Null THEN ent ELSE updateIncludedStatus(ent, data)

\* handleEvent on the state st = [mempool, entryCount, entries, lastBlock]
handleEvent(st, ev) ==
  LET rm == removeUserOpByHash(st.mempool, st.entryCount, ev.userOpHash) IN
  IF ev.event = "UserOperationEvent"
  THEN [mempool |-> rm.mempool, entryCount |-> rm.entryCount,
        entries |-> _includedAddress(_includedAddress(st.entries, ev.sender), ev.paymaster),
        lastBlock |-> ev.blockNumber + 1]
  ELSE [mempool |-> st.mempool, entryCount |-> st.entryCount,
        entries |-> _includedAddress(st.entries, ev.factory),
        lastBlock |-> ev.blockNumber + 1]

RECURSIVE handleEvents(_, _)
handleEvents(st, evs) ==
  IF evs = <<>> THEN st ELSE handleEvents(handleEvent(st, Head(evs)), Tail(evs))

\* queryFilter(address, fromBlock): the logged events from fromBlock on
queryFilter(fromBlock) ==
  SelectSeq(chain, LAMBDA ev : ev.blockNumber >= fromBlock)

----------------------------------------------------------------------------
(* Async invocations *)

RpcProcs == {"rpc1", "rpc2"}      \* eth_sendUserOperation calls
TimerProcs == {"timer"}           \* auto-bundler ticks
DebugProcs == {"debug"}           \* debug_bundler_sendBundleNow calls
Procs == RpcProcs \cup TimerProcs \cup DebugProcs

maxBundleGas == 4                 \* BundleManager.maxBundleGas (configuration)
THROTTLED_ENTITY_BUNDLE_COUNT == 4

NoOp == UserOp(Null, 0, "0x", "0x", 0, 0, 0)
NoDeposit == [a \in LowerAddrs |-> -1]
NoCount == [a \in LowerAddrs |-> 0]
NoResult == [storage |-> {}, preOpGas |-> 0, prefund |-> 0]
NoReturnInfo ==
  [sigFailed |-> FALSE, validAfter |-> 0, validUntil |-> 0, extraGas |-> 0,
   aggregator |-> FALSE]

IdleLoc ==
  [userOp |-> NoOp, senderInfo |-> NoInfo, paymasterInfo |-> NoInfo,
   factoryInfo |-> NoInfo, prefund |-> 0, mined |-> FALSE,
   ctx |-> "none", from |-> 0,
   snap |-> <<>>, known |-> {}, i |-> 0, bundle |-> <<>>, senders |-> {},
   totalGas |-> 0, paymasterDeposit |-> NoDeposit, stakedEntityCount |-> NoCount,
   vr |-> NoResult, returnInfo |-> NoReturnInfo]

\* a build that skips no op for a THROTTLED entity
throttledOrOverCountMutant(status, cnt) == FALSE
\* a === THROTTLED ?? (count > 4): the left side is a boolean, never null,
\* so ?? yields it and the count is not consulted
throttledOrOverCount(status, cnt) == status = THROTTLED

\* createBundle from entry l.i on, up to the next await (validateUserOp) or
\* the end of the loop; removals of BANNED entries happen on the way
RECURSIVE Scan(_, _, _, _)
Scan(mp, ec, ent, l) ==
  IF l.i > Len(l.snap)
  THEN [mempool |-> mp, entryCount |-> ec, l |-> l, next |-> "cb_done"]
  ELSE
    LET entry == l.snap[l.i]
        paymaster == getAddr(entry.userOp.paymasterAndData)
        factory == getAddr(entry.userOp.initCode)
        paymasterStatus == statusOf(ent, whitelist, blackList, paymaster)
        deployerStatus == statusOf(ent, whitelist, blackList, factory)
        skip == [l EXCEPT !.i = @ + 1]
    IN IF paymasterStatus = BANNED \/ deployerStatus = BANNED
       THEN LET rm == removeUserOp(mp, ec, entry.userOp)
            IN Scan(rm.mempool, rm.entryCount, ent, skip)
       ELSE IF paymaster # Null
               /\ throttledOrOverCount(paymasterStatus, l.stakedEntityCount[paymaster])
         THEN Scan(mp, ec, ent, skip)
       ELSE IF factory # Null
               /\ throttledOrOverCount(deployerStatus, l.stakedEntityCount[factory])
         THEN Scan(mp, ec, ent, skip)
       ELSE IF entry.userOp.sender \in l.senders
         THEN Scan(mp, ec, ent, skip)
       ELSE [mempool |-> mp, entryCount |-> ec,
             l |-> [l EXCEPT !.mined = entry.userOpHash \in minedHashes],
             next |-> "cb_validate"]

\* createBundle up to its first await: the sorted snapshot, the known senders
createBundle(mp, ec, ent, l) ==
  Scan(mp, ec, ent,
       [l EXCEPT !.snap = getSortedForInclusion(mp), !.known = getKnownSenders(mp),
                 !.i = 1, !.bundle = <<>>, !.senders = {}, !.totalGas = 0,
                 !.paymasterDeposit = NoDeposit, !.stakedEntityCount = NoCount])

\* a deposit check that lets every prefund through
depositTooLowMutant(deposit, prefund) == FALSE
\* paymasterDeposit[paymaster].lt(prefund)
depositTooLow(deposit, prefund) == deposit < prefund

\* a gas check that lets every total through
exceedsBundleGasMutant(newTotalGas) == FALSE
\* newTotalGas.gt(this.maxBundleGas)
exceedsBundleGas(newTotalGas) == newTotalGas > maxBundleGas

\* the tail of one loop iteration, once the paymaster deposit is known
Admit(mp, ec, ent, l) ==
  LET entry == l.snap[l.i]
      paymaster == getAddr(entry.userOp.paymasterAndData)
      factory == getAddr(entry.userOp.initCode)
      skip == [l EXCEPT !.i = @ + 1, !.vr = NoResult]
  IN IF paymaster # Null /\ depositTooLow(l.paymasterDeposit[paymaster], l.vr.prefund)
     THEN Scan(mp, ec, ent, skip)
     ELSE
       LET l1 == IF paymaster = Null THEN l
                 ELSE [l EXCEPT !.stakedEntityCount[paymaster] = @ + 1,
                                !.paymasterDeposit[paymaster] = @ - l.vr.prefund]
           l2 == IF factory = Null THEN l1
                 ELSE [l1 EXCEPT !.stakedEntityCount[factory] = @ + 1]
           l3 == [l2 EXCEPT !.senders = @ \cup {entry.userOp.sender},
                            !.bundle = Append(@, entry.userOp),
                            !.totalGas = @ + l.vr.preOpGas + entry.userOp.callGasLimit,
                            !.i = @ + 1, !.vr = NoResult]
       IN Scan(mp, ec, ent, l3)

\* a build that sees no storage conflict
touchesKnownSenderMutant(storage, sender, known) == FALSE
\* some key of validationResult.storageMap is, lowercased, not the sender of
\* the op and is one of knownSenders
touchesKnownSender(storage, sender, known) ==
  \E a \in storage : toLowerCase(a) # toLowerCase(sender) /\ toLowerCase(a) \in known

\* a loop that passes over an op that does not fit and goes on
AfterValidationMutant(mp, ec, ent, l0, vr) ==
  LET l == [l0 EXCEPT !.vr = vr]
      entry == l.snap[l.i]
      paymaster == getAddr(entry.userOp.paymasterAndData)
      conflict == touchesKnownSender(vr.storage, entry.userOp.sender, l.known)
      newTotalGas == l.totalGas + vr.preOpGas + entry.userOp.callGasLimit
  IN IF conflict THEN Scan(mp, ec, ent, [l EXCEPT !.i = @ + 1, !.vr = NoResult])
     ELSE IF exceedsBundleGas(newTotalGas)
       THEN Scan(mp, ec, ent, [l EXCEPT !.i = @ + 1, !.vr = NoResult])
     ELSE IF paymaster # Null /\ l.paymasterDeposit[paymaster] = -1
       THEN [mempool |-> mp, entryCount |-> ec, l |-> l, next |-> "cb_balanceOf"]
     ELSE Admit(mp, ec, ent, l)
\* one loop iteration after validateUserOp returned vr
AfterValidation(mp, ec, ent, l0, vr) ==
  LET l == [l0 EXCEPT !.vr = vr]
      entry == l.snap[l.i]
      paymaster == getAddr(entry.userOp.paymasterAndData)
      conflict == touchesKnownSender(vr.storage, entry.userOp.sender, l.known)
      newTotalGas == l.totalGas + vr.preOpGas + entry.userOp.callGasLimit
  IN IF conflict THEN Scan(mp, ec, ent, [l EXCEPT !.i = @ + 1, !.vr = NoResult])
     ELSE IF exceedsBundleGas(newTotalGas)
       THEN [mempool |-> mp, entryCount |-> ec, l |-> [l EXCEPT !.vr = NoResult],
             next |-> "cb_done"]
     ELSE IF paymaster # Null /\ l.paymasterDeposit[paymaster] = -1
       THEN [mempool |-> mp, entryCount |-> ec, l |-> l, next |-> "cb_balanceOf"]
     ELSE Admit(mp, ec, ent, l)

----------------------------------------------------------------------------
(* Mutexes (async-mutex: FIFO hand-over) and continuations *)

\* caps of the counters, used in guards only
CanBumpTo(e, n) == IF e = NoEntry THEN TRUE ELSE e.opsSeen % 10000 < n /\ e.opsIncluded < n
CanBump(e) == CanBumpTo(e, MaxSeen)
CanCrash(e) == IF e = NoEntry THEN TRUE ELSE e.opsSeen + 10000 <= MaxCounter

\* a lock that lets a waiter in while another caller holds it
holdsLockMutant(m, p) == p \in SeqToSet(m)
holdsLock(m, p) == m # <<>> /\ Head(m) = p
acquire(m, p) == Append(m, p)
release(m, p) == SelectSeq(m, LAMBDA q : q # p)

OpsOf(mp) == {mp[i].userOp : i \in 1..Len(mp)}

\* handlePastEvents up to its first await
StartHpe(lb, ctx) ==
  [pcl |-> IF lb = 0 THEN "hpe_block" ELSE "hpe_query",
   l |-> [IdleLoc EXCEPT !.ctx = ctx, !.from = lb], relE |-> FALSE]

Idle(relE) == [pcl |-> "idle", l |-> IdleLoc, relE |-> relE]

\* attemptBundle has returned to its caller: sendUserOperation leaves
\* runExclusive, sendBundleNow goes on to eventsManager.handlePastEvents()
AbEnd(p, lb) ==
  IF p \in RpcProcs THEN Idle(TRUE)
  ELSE IF p \in DebugProcs THEN StartHpe(lb, "debug")
  ELSE Idle(FALSE)

\* sendNextBundle has returned to attemptBundle
NbEnd(p, lb) == IF maxMempoolSize = 0 THEN StartHpe(lb, "after") ELSE AbEnd(p, lb)

\* an exception that leaves sendUserOperation with its lock still held
ThrowMutant(p) == [pcl |-> "idle", l |-> IdleLoc, relE |-> FALSE, thrown |-> TRUE]
\* an exception leaves the whole invocation
Throw(p) == [pcl |-> "idle", l |-> IdleLoc, relE |-> p \in RpcProcs, thrown |-> TRUE]

\* who receives an exception of invocation p: the interval callback of
\* setAutoBundler catches and logs it, sendUserOperation and sendBundleNow
\* have no handler and reject to the RPC caller
Catcher(p) == IF p \in TimerProcs THEN "console.error" ELSE "caller"

\* no exception leaves an invocation in this step
NoThrow == thrown' = <<>>

Go(p, r, relB) ==
  /\ pc' = [pc EXCEPT ![p] = r.pcl]
  /\ loc' = [loc EXCEPT ![p] = r.l]
  /\ execMutex' = IF r.relE THEN release(execMutex, p) ELSE execMutex
  /\ bundleMutex' = IF relB THEN release(bundleMutex, p) ELSE bundleMutex
  /\ thrown' = IF "thrown" \in DOMAIN r THEN <<p, Catcher(p)>> ELSE <<>>
  /\ pending' = pending
  /\ UNCHANGED collector

\* the ops held by the snapshot of a createBundle in progress
Snapshotted(l) == UNION {OpsOf(l[p].snap) : p \in DOMAIN l}

\* bookkeeping of removeUserOp: what left the mempool in this step; an op is
\* kept only while the snapshot of a build in progress still holds it
NoteRemoved ==
  removed' = (removed \cup (OpsOf(mempool) \ OpsOf(mempool'))) \cap Snapshotted(loc')

\* the state after a stretch of createBundle cb, entries ent and cursor lb
GoBuild(p, cb, ent, lb) ==
  /\ mempool' = cb.mempool
  /\ entryCount' = cb.entryCount
  /\ entries' = ent
  /\ lastBlock' = lb
  /\ IF cb.next = "cb_done"
     THEN IF cb.l.bundle = <<>>
          THEN Go(p, NbEnd(p, lb), TRUE)
          ELSE Go(p, [pcl |-> "sb_send", l |-> cb.l, relE |-> FALSE], FALSE)
     ELSE Go(p, [pcl |-> cb.next, l |-> cb.l, relE |-> FALSE], FALSE)
  /\ NoteRemoved

----------------------------------------------------------------------------
(* ValidationManager.validateUserOp: the checks on the simulation result *)

VALID_UNTIL_FUTURE_SECONDS == 30
Now == 100            \* Math.floor(Date.now() / 1000)
Undefined == -1       \* a number that is null or undefined

\* the requireCond chain on res: the first failing check names the error.
\* ri.extraGas is verificationGasLimit - (preOpGas - preVerificationGas)
validateChecks(ri, now) ==
  IF ri.sigFailed THEN "InvalidSignature"
  ELSE IF ~(ri.validAfter <= now) THEN "NotInTimeRange"
  ELSE IF ~(ri.validUntil = Undefined \/ ri.validUntil >= now) THEN "NotInTimeRange"
  ELSE IF ~(ri.validUntil = Undefined
            \/ ri.validUntil > now + VALID_UNTIL_FUTURE_SECONDS) THEN "NotInTimeRange"
  ELSE IF ri.aggregator THEN "UnsupportedSignatureAggregator"
  ELSE IF ~(ri.extraGas >= 2000) THEN "SimulateValidation"
  ELSE "ok"

----------------------------------------------------------------------------
(* ExecutionManager.sendUserOperation *)

\* validateInputParameters: paymasterAndData and initCode are "0x" or hold
\* at least an address ("0x12" stands for a length strictly between 2 and 42)
validateInputParameters(userOp) ==
  IF userOp.paymasterAndData = "0x12" THEN "InvalidFields"
  ELSE IF userOp.initCode = "0x12" THEN "InvalidFields"
  ELSE "ok"

\* intake is offered while the mempool holds fewer than n entries and every
\* counter is below n
Offered(n, count, seen) ==
  /\ Len(mempool) < n
  /\ \A a \in LowerAddrs : entryCount[a] < count
  /\ \A a \in RepAddrs : CanBumpTo(entries[a], seen)

\* eth_sendUserOperation arrives: the handler queues for ExecutionManager.mutex
Submit(p, op) ==
  /\ pc[p] = "idle"
  /\ pc' = [pc EXCEPT ![p] = "su_lock"]
  /\ loc' = [loc EXCEPT ![p].userOp = op]
  /\ execMutex' = acquire(execMutex, p)
  /\ UNCHANGED <<mempool, entryCount, entries, whitelist, blackList, bundleMutex,
                 maxMempoolSize, autoInterval, timers, lastBlock, chain, live,
                 removed>>
  /\ NoThrow /\ UNCHANGED <<pending, collector>>

SendUserOperation(p, op) ==
  /\ Offered(MaxMempool, MaxEntryCount, MaxSeen)
  /\ Submit(p, op)

\* runExclusive grants the lock; validateInputParameters; validateUserOp is called
SuEnter(p) ==
  /\ pc[p] = "su_lock"
  /\ holdsLock(execMutex, p)
  /\ LET r == validateInputParameters(loc[p].userOp) IN
     IF r = "ok"
     THEN /\ Go(p, [pcl |-> "su_validate",
                    l |-> [loc[p] EXCEPT !.mined =
                             getUserOpHash(loc[p].userOp) \in minedHashes],
                    relE |-> FALSE], FALSE)
     ELSE /\ Go(p, Throw(p), FALSE)
  /\ UNCHANGED <<mempool, entryCount, entries, whitelist, blackList,
                 maxMempoolSize, autoInterval, timers, lastBlock, chain, live,
                 removed>>

\* validateUserOp returns: it throws, or yields the stake infos and the prefund.
\* An op the EntryPoint had executed when the call was made cannot validate.
SuValidated(p, ok, sStaked, pStaked, fStaked, prefund) ==
  /\ pc[p] = "su_validate"
  /\ ok => ~loc[p].mined
  /\ LET userOp == loc[p].userOp
         paymaster == getAddr(userOp.paymasterAndData)
         factory == getAddr(userOp.initCode)
     IN IF ok
        THEN /\ Go(p, [pcl |-> "su_hash",
                       l |-> [loc[p] EXCEPT
                                !.senderInfo = StakeInfo(userOp.sender, sStaked),
                                !.paymasterInfo = IF paymaster = Null THEN NoInfo
                                                  ELSE StakeInfo(paymaster, pStaked),
                                !.factoryInfo = IF factory = Null THEN NoInfo
                                                ELSE StakeInfo(factory, fStaked),
                                !.prefund = prefund],
                       relE |-> FALSE], FALSE)
        ELSE /\ Go(p, Throw(p), FALSE)
  /\ UNCHANGED <<mempool, entryCount, entries, whitelist, blackList,
                 maxMempoolSize, autoInterval, timers, lastBlock, chain, live,
                 removed>>

\* the simulation of validateUserOp returns: it throws, or yields
\* res.returnInfo; validateUserOp then awaits getCodeHashes
SuSimulated(p, ok, returnInfo) ==
  /\ pc[p] = "su_validate"
  /\ ok => ~loc[p].mined
  /\ IF ok
     THEN Go(p, [pcl |-> "su_codehash",
                 l |-> [loc[p] EXCEPT !.returnInfo = returnInfo],
                 relE |-> FALSE], FALSE)
     ELSE Go(p, Throw(p), FALSE)
  /\ UNCHANGED <<mempool, entryCount, entries, whitelist, blackList,
                 maxMempoolSize, autoInterval, timers, lastBlock, chain, live,
                 removed>>

\* getCodeHashes returns: the requireCond checks of validateUserOp run on
\* res and validateUserOp returns or throws
SuChecked(p, sStaked, pStaked, fStaked, prefund) ==
  /\ pc[p] = "su_codehash"
  /\ LET userOp == loc[p].userOp
         paymaster == getAddr(userOp.paymasterAndData)
         factory == getAddr(userOp.initCode)
     IN IF validateChecks(loc[p].returnInfo, Now) = "ok"
        THEN Go(p, [pcl |-> "su_hash",
                    l |-> [loc[p] EXCEPT
                             !.senderInfo = StakeInfo(userOp.sender, sStaked),
                             !.paymasterInfo = IF paymaster = Null THEN NoInfo
                                               ELSE StakeInfo(paymaster, pStaked),
                             !.factoryInfo = IF factory = Null THEN NoInfo
                                             ELSE StakeInfo(factory, fStaked),
                             !.prefund = prefund,
                             !.returnInfo = NoReturnInfo],
                    relE |-> FALSE], FALSE)
        ELSE Go(p, Throw(p), FALSE)
  /\ UNCHANGED <<mempool, entryCount, entries, whitelist, blackList,
                 maxMempoolSize, autoInterval, timers, lastBlock, chain, live,
                 removed>>

\* getUserOpHash returns; addUserOp; attemptBundle(false) up to its first await
SuAdd(p) ==
  /\ pc[p] = "su_hash"
  /\ LET l == loc[p]
         r == addUserOp(mempool, entryCount, entries, l.userOp, l.prefund,
                        l.senderInfo, l.paymasterInfo, l.factoryInfo)
     IN /\ mempool' = r.mempool
        /\ entryCount' = r.entryCount
        /\ entries' = r.entries
        /\ IF r.err # "ok"
           THEN /\ Go(p, Throw(p), FALSE)
                /\ removed' = removed
           ELSE /\ IF Len(r.mempool) >= maxMempoolSize
                   THEN /\ pc' = [pc EXCEPT ![p] = "nb_lock"]
                        /\ loc' = [loc EXCEPT ![p] = IdleLoc]
                        /\ bundleMutex' = acquire(bundleMutex, p)
                        /\ execMutex' = execMutex
                        /\ NoThrow /\ UNCHANGED <<pending, collector>>
                   ELSE Go(p, AbEnd(p, lastBlock), FALSE)
                /\ removed' = (removed \ {l.userOp}) \cap Snapshotted(loc')
  /\ UNCHANGED <<whitelist, blackList, maxMempoolSize, autoInterval, timers,
                 lastBlock, chain, live>>

----------------------------------------------------------------------------
(* ExecutionManager.attemptBundle, BundleManager.sendNextBundle *)

\* a tick of the auto-bundler interval: attemptBundle(true), no lock of the
\* ExecutionManager is taken
TimerTick(p) ==
  /\ p \in TimerProcs
  /\ pc[p] = "idle"
  /\ timers.auto # <<>>
  /\ pc' = [pc EXCEPT ![p] = "nb_lock"]
  /\ bundleMutex' = acquire(bundleMutex, p)
  /\ UNCHANGED <<mempool, entryCount, entries, whitelist, blackList, execMutex, loc,
                 maxMempoolSize, autoInterval, timers, lastBlock, chain, live,
                 removed>>
  /\ NoThrow /\ UNCHANGED <<pending, collector>>

\* debug_bundler_sendBundleNow: attemptBundle(true), then handlePastEvents
SendBundleNow(p) ==
  /\ p \in DebugProcs
  /\ pc[p] = "idle"
  /\ pc' = [pc EXCEPT ![p] = "nb_lock"]
  /\ bundleMutex' = acquire(bundleMutex, p)
  /\ UNCHANGED <<mempool, entryCount, entries, whitelist, blackList, execMutex, loc,
                 maxMempoolSize, autoInterval, timers, lastBlock, chain, live,
                 removed>>
  /\ NoThrow /\ UNCHANGED <<pending, collector>>

\* BundleManager.mutex grants the lock; handlePastEvents is called
NbEnter(p) ==
  /\ pc[p] = "nb_lock"
  /\ holdsLock(bundleMutex, p)
  /\ Go(p, StartHpe(lastBlock, "bundle"), FALSE)
  /\ UNCHANGED <<mempool, entryCount, entries, whitelist, blackList,
                 maxMempoolSize, autoInterval, timers, lastBlock, chain, live,
                 removed>>

\* getBlockNumber returns: the cursor is initialised, queryFilter is called
HpeBlock(p) ==
  /\ pc[p] = "hpe_block"
  /\ lastBlock' = Max(1, blockNumber - 1000)
  /\ pc' = [pc EXCEPT ![p] = "hpe_query"]
  /\ loc' = [loc EXCEPT ![p].from = Max(1, blockNumber - 1000)]
  /\ UNCHANGED <<mempool, entryCount, entries, whitelist, blackList, execMutex,
                 bundleMutex, maxMempoolSize, autoInterval, timers, chain, live,
                 removed>>
  /\ NoThrow /\ UNCHANGED <<pending, collector>>

\* queryFilter returns: every event is handled; then, inside sendNextBundle,
\* createBundle runs up to its first await
HpeQuery(p) ==
  /\ pc[p] = "hpe_query"
  /\ LET st == handleEvents([mempool |-> mempool, entryCount |-> entryCount,
                             entries |-> entries, lastBlock |-> lastBlock],
                            queryFilter(loc[p].from))
     IN IF loc[p].ctx = "bundle"
        THEN GoBuild(p, createBundle(st.mempool, st.entryCount, st.entries, IdleLoc),
                     st.entries, st.lastBlock)
        ELSE /\ mempool' = st.mempool
             /\ entryCount' = st.entryCount
             /\ entries' = st.entries
             /\ lastBlock' = st.lastBlock
             /\ IF loc[p].ctx = "after"
                THEN Go(p, AbEnd(p, st.lastBlock), FALSE)
                ELSE Go(p, Idle(FALSE), FALSE)
             /\ NoteRemoved
  /\ UNCHANGED <<whitelist, blackList, maxMempoolSize, autoInterval, timers,
                 chain, live>>

\* the second validateUserOp returns: it throws (the entry is removed), or
\* yields vr = [storage, preOpGas, prefund]
CbValidated(p, ok, vr) ==
  /\ pc[p] = "cb_validate"
  /\ ok => ~loc[p].mined
  /\ LET l == loc[p]
         entry == l.snap[l.i]
         rm == removeUserOp(mempool, entryCount, entry.userOp)
     IN IF ok
        THEN GoBuild(p, AfterValidation(mempool, entryCount, entries, l, vr),
                     entries, lastBlock)
        ELSE GoBuild(p, Scan(rm.mempool, rm.entryCount, entries, [l EXCEPT !.i = @ + 1]),
                     entries, lastBlock)
  /\ UNCHANGED <<whitelist, blackList, maxMempoolSize, autoInterval, timers,
                 chain, live>>

\* EntryPoint.balanceOf(paymaster) returns
CbBalanceOf(p, balance) ==
  /\ pc[p] = "cb_balanceOf"
  /\ LET l == loc[p]
         paymaster == getAddr(l.snap[l.i].userOp.paymasterAndData)
     IN GoBuild(p, Admit(mempool, entryCount, entries,
                         [l EXCEPT !.paymasterDeposit[paymaster] = balance]),
                entries, lastBlock)
  /\ UNCHANGED <<whitelist, blackList, maxMempoolSize, autoInterval, timers,
                 chain, live>>

\* the live events of a block: the subscription is for UserOperationEvent only
LiveOf(evs) == SelectSeq(evs, LAMBDA ev : ev.event = "UserOperationEvent")

DistinctHashes(ops) ==
  \A i, j \in 1..Len(ops) : getUserOpHash(ops[i]) = getUserOpHash(ops[j]) => i = j

\* sendBundle succeeds: handleOps is mined in a new block
SbSendOk(p) ==
  /\ pc[p] = "sb_send"
  /\ blockNumber < MaxBlocks
  /\ DistinctHashes(loc[p].bundle)
  /\ \A i \in 1..Len(loc[p].bundle) : getUserOpHash(loc[p].bundle[i]) \notin minedHashes
  /\ chain' = chain \o EventsOfBundle(loc[p].bundle, blockNumber + 1)
  /\ live' = live \o LiveOf(EventsOfBundle(loc[p].bundle, blockNumber + 1))
  /\ Go(p, NbEnd(p, lastBlock), TRUE)
  /\ UNCHANGED <<mempool, entryCount, entries, whitelist, blackList,
                 maxMempoolSize, autoInterval, timers, lastBlock>>
  /\ NoteRemoved

\* sendBundle with conditionalRpc: eth_sendRawTransactionConditional returns
\* the transaction hash once the node has accepted the transaction; nothing
\* waits for it to be mined
SbSendConditional(p) ==
  /\ pc[p] = "sb_send"
  /\ Len(pending) < MaxPending
  /\ pending' = Append(pending, loc[p].bundle)
  /\ UNCHANGED collector
  /\ LET r == NbEnd(p, lastBlock) IN
     /\ pc' = [pc EXCEPT ![p] = r.pcl]
     /\ loc' = [loc EXCEPT ![p] = r.l]
     /\ execMutex' = IF r.relE THEN release(execMutex, p) ELSE execMutex
     /\ bundleMutex' = release(bundleMutex, p)
  /\ NoThrow
  /\ UNCHANGED <<mempool, entryCount, entries, whitelist, blackList,
                 maxMempoolSize, autoInterval, timers, lastBlock, chain, live>>
  /\ NoteRemoved

\* the node mines its oldest pending handleOps transaction: it emits the
\* events of its ops, or reverts as a whole when the EntryPoint has already
\* executed one of them (the nonce is used)
TxMined ==
  /\ pending # <<>>
  /\ blockNumber < MaxBlocks
  /\ LET ops == Head(pending) IN
     IF /\ DistinctHashes(ops)
        /\ \A i \in 1..Len(ops) : getUserOpHash(ops[i]) \notin minedHashes
     THEN /\ chain' = chain \o EventsOfBundle(ops, blockNumber + 1)
          /\ live' = live \o LiveOf(EventsOfBundle(ops, blockNumber + 1))
     ELSE UNCHANGED <<chain, live>>
  /\ pending' = Tail(pending)
  /\ UNCHANGED collector
  /\ NoThrow
  /\ UNCHANGED <<mempool, entryCount, entries, whitelist, blackList, execMutex,
                 bundleMutex, pc, loc, maxMempoolSize, autoInterval, timers,
                 lastBlock, removed>>

\* handleOps reverts with FailedOp(opIndex, reason)
SbSendFailedOp(p, opIndex, reason) ==
  /\ pc[p] = "sb_send"
  /\ opIndex \in 1..Len(loc[p].bundle)
  /\ \A a \in RepAddrs : CanCrash(entries[a])
  /\ LET userOp == loc[p].bundle[opIndex]
         rm == removeUserOp(mempool, entryCount, userOp)
     IN CASE reason = "AA3" ->
               /\ entries' = crashedHandleOps(entries, getAddr(userOp.paymasterAndData))
               /\ UNCHANGED <<mempool, entryCount>>
          [] reason = "AA2" ->
               /\ entries' = crashedHandleOps(entries, userOp.sender)
               /\ UNCHANGED <<mempool, entryCount>>
          [] reason = "AA1" ->
               /\ entries' = crashedHandleOps(entries, getAddr(userOp.initCode))
               /\ UNCHANGED <<mempool, entryCount>>
          [] OTHER ->
               /\ mempool' = rm.mempool
               /\ entryCount' = rm.entryCount
               /\ UNCHANGED entries
  /\ Go(p, NbEnd(p, lastBlock), TRUE)
  /\ NoteRemoved
  /\ UNCHANGED <<whitelist, blackList, maxMempoolSize, autoInterval, timers,
                 lastBlock, chain, live>>

\* a provider call inside handlePastEvents or createBundle rejects
\* (getBlockNumber, queryFilter, balanceOf): nothing catches it on the way out
\* of sendNextBundle and attemptBundle, runExclusive releases the lock
AwaitRejects(p) ==
  /\ pc[p] \in {"hpe_block", "hpe_query", "cb_balanceOf"}
  /\ Go(p, Throw(p), TRUE)
  /\ UNCHANGED <<mempool, entryCount, entries, whitelist, blackList,
                 maxMempoolSize, autoInterval, timers, lastBlock, chain, live>>
  /\ NoteRemoved

\* a sendBundle whose fatal error leaves BundleManager.mutex held
SbSendErrorMutant(p, fatal) ==
  /\ pc[p] = "sb_send"
  /\ IF fatal THEN Go(p, Throw(p), FALSE) ELSE Go(p, NbEnd(p, lastBlock), TRUE)
  /\ UNCHANGED <<mempool, entryCount, entries, whitelist, blackList,
                 maxMempoolSize, autoInterval, timers, lastBlock, chain, live>>
  /\ NoteRemoved
\* sendBundle fails with another error: fatal (-32601) is re-thrown, any
\* other one is logged and sendBundle returns undefined
SbSendError(p, fatal) ==
  /\ pc[p] = "sb_send"
  /\ IF fatal THEN Go(p, Throw(p), TRUE) ELSE Go(p, NbEnd(p, lastBlock), TRUE)
  /\ UNCHANGED <<mempool, entryCount, entries, whitelist, blackList,
                 maxMempoolSize, autoInterval, timers, lastBlock, chain, live>>
  /\ NoteRemoved

----------------------------------------------------------------------------
(* Callbacks outside any lock *)

\* the live UserOperationEvent subscription delivers its next event
LiveEvent ==
  /\ live # <<>>
  /\ LET st == handleEvent([mempool |-> mempool, entryCount |-> entryCount,
                            entries |-> entries, lastBlock |-> lastBlock], Head(live))
     IN /\ mempool' = st.mempool
        /\ entryCount' = st.entryCount
        /\ entries' = st.entries
        /\ lastBlock' = st.lastBlock
  /\ live' = Tail(live)
  /\ UNCHANGED <<whitelist, blackList, execMutex, bundleMutex, pc, loc,
                 maxMempoolSize, autoInterval, timers, chain>>
  /\ NoteRemoved
  /\ NoThrow /\ UNCHANGED <<pending, collector>>

\* another bundler's handleOps executes op (an op of the public mempool)
OtherBundlerMines(op) ==
  /\ blockNumber < MaxBlocks
  /\ getUserOpHash(op) \notin minedHashes
  /\ chain' = chain \o EventsOfOp(op, blockNumber + 1)
  /\ live' = live \o LiveOf(EventsOfOp(op, blockNumber + 1))
  /\ UNCHANGED <<mempool, entryCount, entries, whitelist, blackList, execMutex,
                 bundleMutex, pc, loc, maxMempoolSize, autoInterval, timers,
                 lastBlock, removed>>
  /\ NoThrow /\ UNCHANGED <<pending, collector>>

\* a tick of the reputation cron interval
HourlyCronTick ==
  /\ timers.cron # <<>>
  /\ entries' = hourlyCron(entries)
  /\ UNCHANGED <<mempool, entryCount, whitelist, blackList, execMutex, bundleMutex,
                 pc, loc, maxMempoolSize, autoInterval, timers, lastBlock, chain,
                 live, removed>>
  /\ NoThrow /\ UNCHANGED <<pending, collector>>

----------------------------------------------------------------------------
(* Configuration and debug RPC: synchronous, no lock *)

NoEntries == [a \in RepAddrs |-> NoEntry]
NoCounts == [a \in LowerAddrs |-> 0]

\* no timer is active and no handle is set
NoTimers == [auto |-> <<>>, autoBundleInterval |-> 0, cron |-> <<>>, reputationCron |-> 0]

\* clearInterval(handle) on the active timers ts of one kind: the timer the
\* handle refers to is cancelled; an undefined or stale handle (0) cancels nothing
clearInterval(ts, handle) == IF handle = 0 THEN ts ELSE RemoveAt(ts, handle)

\* setInterval(callback, interval): one more active timer
setInterval(ts, interval) == Append(ts, interval)

\* setAutoBundler without its clearInterval
setAutoBundlerMutant(interval, maxSize) ==
  /\ autoInterval' = interval
  /\ maxMempoolSize' = maxSize
  /\ timers' = IF interval # 0
               THEN [timers EXCEPT !.auto = setInterval(timers.auto, interval),
                                   !.autoBundleInterval = Len(timers.auto) + 1]
               ELSE timers
\* ExecutionManager.setAutoBundler: the old timer is cleared, a new one is
\* set unless the interval is 0 (the handle field is then left stale)
setAutoBundler(interval, maxSize) ==
  /\ autoInterval' = interval
  /\ maxMempoolSize' = maxSize
  /\ LET cleared == clearInterval(timers.auto, timers.autoBundleInterval) IN
     timers' = IF interval # 0
               THEN [timers EXCEPT !.auto = setInterval(cleared, interval),
                                   !.autoBundleInterval = Len(cleared) + 1]
               ELSE [timers EXCEPT !.auto = cleared, !.autoBundleInterval = 0]

\* DebugMethodHandler.setBundlingMode: 'auto' or 'manual'
SetBundlingMode(mode) ==
  /\ IF mode = "auto" THEN setAutoBundler(0, 0) ELSE setAutoBundler(0, 1000)
  /\ UNCHANGED <<mempool, entryCount, entries, whitelist, blackList, execMutex,
                 bundleMutex, pc, loc, lastBlock, chain, live, removed>>
  /\ NoThrow /\ UNCHANGED <<pending, collector>>

\* DebugMethodHandler.setBundleInterval with a number of seconds
SetBundleInterval(interval, maxPoolSize) ==
  /\ setAutoBundler(interval, maxPoolSize)
  /\ UNCHANGED <<mempool, entryCount, entries, whitelist, blackList, execMutex,
                 bundleMutex, pc, loc, lastBlock, chain, live, removed>>
  /\ NoThrow /\ UNCHANGED <<pending, collector>>

\* ExecutionManager.setReputationCron: the old timer is cleared, a new one is
\* set unless the interval is 0
SetReputationCron(interval) ==
  /\ LET cleared == clearInterval(timers.cron, timers.reputationCron) IN
     timers' = IF interval # 0
               THEN [timers EXCEPT !.cron = setInterval(cleared, interval),
                                   !.reputationCron = Len(cleared) + 1]
               ELSE [timers EXCEPT !.cron = cleared, !.reputationCron = 0]
  /\ UNCHANGED <<mempool, entryCount, entries, whitelist, blackList, execMutex,
                 bundleMutex, pc, loc, maxMempoolSize, autoInterval, lastBlock, chain,
                 live, removed>>
  /\ NoThrow /\ UNCHANGED <<pending, collector>>

\* debug_bundler_clearState
ClearState ==
  /\ mempool' = <<>>
  /\ entryCount' = NoCounts
  /\ entries' = NoEntries
  /\ UNCHANGED <<whitelist, blackList, execMutex, bundleMutex, pc, loc,
                 maxMempoolSize, autoInterval, timers, lastBlock, chain, live,
                 removed>>
  /\ NoThrow /\ UNCHANGED <<pending, collector>>

\* debug_bundler_clearMempool
ClearMempool ==
  /\ mempool' = <<>>
  /\ entryCount' = NoCounts
  /\ UNCHANGED <<entries, whitelist, blackList, execMutex, bundleMutex, pc, loc,
                 maxMempoolSize, autoInterval, timers, lastBlock, chain, live,
                 removed>>
  /\ NoThrow /\ UNCHANGED <<pending, collector>>

\* debug_bundler_clearReputation
ClearReputation ==
  /\ entries' = NoEntries
  /\ UNCHANGED <<mempool, entryCount, whitelist, blackList, execMutex, bundleMutex,
                 pc, loc, maxMempoolSize, autoInterval, timers, lastBlock, chain,
                 live, removed>>
  /\ NoThrow /\ UNCHANGED <<pending, collector>>

\* setReputation writes each entry of the dump under its lowercased address
RECURSIVE setReputation(_, _)
setReputation(ent, reputations) ==
  IF reputations = <<>> THEN ent
  ELSE setReputation(
         [ent EXCEPT ![toLowerCase(Head(reputations).address)] =
            RepEntry(Head(reputations).opsSeen, Head(reputations).opsIncluded)],
         Tail(reputations))

\* debug_bundler_setReputation
SetReputation(reputations) ==
  /\ entries' = setReputation(entries, reputations)
  /\ UNCHANGED <<mempool, entryCount, whitelist, blackList, execMutex, bundleMutex,
                 pc, loc, maxMempoolSize, autoInterval, timers, lastBlock, chain,
                 live, removed>>
  /\ NoThrow /\ UNCHANGED <<pending, collector>>

AddWhitelist(item) ==
  /\ whitelist' = whitelist \cup {item}
  /\ UNCHANGED <<mempool, entryCount, entries, blackList, execMutex, bundleMutex,
                 pc, loc, maxMempoolSize, autoInterval, timers, lastBlock, chain,
                 live, removed>>
  /\ NoThrow /\ UNCHANGED <<pending, collector>>

AddBlacklist(item) ==
  /\ blackList' = blackList \cup {item}
  /\ UNCHANGED <<mempool, entryCount, entries, whitelist, execMutex, bundleMutex,
                 pc, loc, maxMempoolSize, autoInterval, timers, lastBlock, chain,
                 live, removed>>
  /\ NoThrow /\ UNCHANGED <<pending, collector>>

----------------------------------------------------------------------------
(* BundlerCollectorTracer: the geth tracer that collects what the validation
   of an op touches; geth calls step for every opcode, enter and exit around
   every inner call frame *)

stopCollectingTopic == "bb47ee3e"        \* topic of EntryPoint.BeforeExecution
EntryPointAddress == "0xee"              \* the contract of the depth-1 frame
TraceAddrs == {"0xaa", "0xbb"}           \* contracts the trace can reach
TraceSlots == {"0x01", "0x02"}           \* storage slots (toHex of the word)
TraceOpcodes ==
  {"CALL", "STATICCALL", "RETURN", "REVERT", "SLOAD", "SSTORE", "KECCAK256",
   "LOG1", "EXTCODESIZE", "ISZERO", "GAS"}

\* AccessInfo { reads, writes }; a slot that is not a key reads Null / 0
NoAccess ==
  [present |-> FALSE, reads |-> [s \in TraceSlots |-> Null],
   writes |-> [s \in TraceSlots |-> 0]]

\* ContractSizeInfo; contractSize -1 stands for a missing key
NoContractSize == [contractSize |-> -1, opcode |-> Null]

\* the TopLevelCallInfo a depth-1 CALL or STATICCALL opens
TopLevelCallInfo(topLevelMethodSig, topLevelTargetAddress) ==
  [topLevelMethodSig |-> topLevelMethodSig,
   topLevelTargetAddress |-> topLevelTargetAddress,
   access |-> [a \in TraceAddrs |-> NoAccess],
   opcodes |-> [o \in TraceOpcodes |-> 0],
   extCodeAccessInfo |-> [a \in TraceAddrs |-> Null],
   contractSize |-> [a \in TraceAddrs |-> NoContractSize],
   oog |-> FALSE]

\* the object bundlerCollectorTracer() returns; currentLevel is
\* callsFromEntryPoint[topLevelCallCounter], null while the counter is 0
bundlerCollectorTracer ==
  [callsFromEntryPoint |-> <<>>, keccak |-> <<>>, calls |-> <<>>, logs |-> <<>>,
   lastOp |-> "", lastThreeOpcodes |-> <<>>, stopCollecting |-> FALSE,
   topLevelCallCounter |-> 0]

\* a LogStep as the tracer reads it: opcode, depth, gas and cost, the
\* executing contract, and the operands it peeks from stack and memory
LogStep(op, depth, gas, cost, contract, addr, slot, value, topic, len) ==
  [op |-> op, depth |-> depth, gas |-> gas, cost |-> cost, contract |-> contract,
   addr |-> addr, slot |-> slot, value |-> value, topic |-> topic, len |-> len]

\* the entries of calls: MethodInfo of enter, ExitInfo of exit and of a
\* depth-1 RETURN or REVERT
MethodInfo(type, from, to) == [type |-> type, from |-> from, to |-> to, gasUsed |-> -1]
ExitInfo(type, gasUsed) == [type |-> type, from |-> Null, to |-> Null, gasUsed |-> gasUsed]

\* opcode.match(/^(EXT.*)$/)
isExt(opcode) == opcode = "EXTCODESIZE"
\* opcode.includes('CALL')
includesCall(opcode) == opcode \in {"CALL", "STATICCALL"}
\* the opcodes step does not count (DUP, PUSH, SWAP, POP, arithmetic, ISZERO ...)
isUncounted(opcode) == opcode = "ISZERO"
\* addresses 1..9
isAllowedPrecompiled(addr) == addr \in {"0x01", "0x02", "0x03"}

\* countSlot(list, key)
countSlot(list, key) == [list EXCEPT ![key] = @ + 1]

\* an SLOAD that records the value it reads every time
recordAccessMutant(access, opcode, slot, value) ==
  IF opcode = "SLOAD"
  THEN [access EXCEPT !.present = TRUE, !.reads[slot] = value]
  ELSE [access EXCEPT !.present = TRUE, !.writes = countSlot(@, slot)]
\* the SLOAD / SSTORE branch of step on the AccessInfo of the contract
recordAccess(access, opcode, slot, value) ==
  IF opcode = "SLOAD"
  THEN IF access.reads[slot] = Null /\ access.writes[slot] = 0
       THEN [access EXCEPT !.present = TRUE, !.reads[slot] = value]
       ELSE [access EXCEPT !.present = TRUE]
  ELSE [access EXCEPT !.present = TRUE, !.writes = countSlot(@, slot)]

\* last3opcodesString.match(/^(\w+) EXTCODESIZE ISZERO$/)
safeExtCodeSize(last3) ==
  Len(last3) = 3 /\ last3[2].opcode = "EXTCODESIZE" /\ last3[3].opcode = "ISZERO"

\* step below depth 1: what it collects into currentLevel, keccak and logs
stepInner(t, log) ==
  LET cur == t.topLevelCallCounter
      level == t.callsFromEntryPoint[cur]
      last3 == t.lastThreeOpcodes
      opcode == log.op
      ext == IF Len(last3) >= 2 /\ isExt(last3[Len(last3) - 1].opcode)
                /\ ~safeExtCodeSize(last3)
             THEN [level.extCodeAccessInfo EXCEPT ![last3[Len(last3) - 1].stackTop] = opcode]
             ELSE level.extCodeAccessInfo
      size == IF (isExt(opcode) \/ includesCall(opcode))
                 /\ log.addr \in TraceAddrs
                 /\ level.contractSize[log.addr] = NoContractSize
                 /\ ~isAllowedPrecompiled(log.addr)
              THEN [level.contractSize EXCEPT
                      ![log.addr] = [contractSize |-> 1, opcode |-> opcode]]
              ELSE level.contractSize
      counted1 == IF t.lastOp = "GAS" /\ ~includesCall(opcode)
                  THEN countSlot(level.opcodes, "GAS") ELSE level.opcodes
      counted == IF opcode # "GAS" /\ ~isUncounted(opcode)
                 THEN countSlot(counted1, opcode) ELSE counted1
      access == IF opcode \in {"SLOAD", "SSTORE"}
                THEN [level.access EXCEPT
                        ![log.contract] = recordAccess(@, opcode, log.slot, log.value)]
                ELSE level.access
      level1 == [level EXCEPT !.extCodeAccessInfo = ext, !.contractSize = size,
                              !.opcodes = counted, !.access = access]
  IN [t EXCEPT !.callsFromEntryPoint[cur] = level1,
               !.lastOp = opcode,
               !.keccak = IF opcode = "KECCAK256" /\ log.len > 20 /\ log.len < 512
                          THEN Append(@, log.len) ELSE @,
               !.logs = IF opcode = "LOG1" THEN Append(@, <<log.topic>>) ELSE @]

\* step once stopCollecting is known to be false
stepCollect(t, log) ==
  LET opcode == log.op
      pushed == Append(t.lastThreeOpcodes, [opcode |-> opcode, stackTop |-> log.addr])
      last3 == IF Len(pushed) > 3 THEN Tail(pushed) ELSE pushed
      oog == log.gas < log.cost \/ (opcode = "SSTORE" /\ log.gas < 2300)
      t1 == [t EXCEPT !.lastThreeOpcodes = last3]
      t2 == IF oog THEN [t1 EXCEPT !.callsFromEntryPoint[t.topLevelCallCounter].oog = TRUE]
            ELSE t1
      t3 == IF opcode \in {"REVERT", "RETURN"}
            THEN [t2 EXCEPT !.calls = IF log.depth = 1
                                      THEN Append(@, ExitInfo(opcode, 0))
                                      ELSE @,
                            !.lastThreeOpcodes = <<>>]
            ELSE t2
  IN IF log.depth = 1
     THEN IF opcode \in {"CALL", "STATICCALL"}
          THEN [t3 EXCEPT !.callsFromEntryPoint =
                             Append(@, TopLevelCallInfo("0x", log.addr)),
                          !.topLevelCallCounter = @ + 1,
                          !.lastOp = ""]
          ELSE IF opcode = "LOG1" /\ log.topic = stopCollectingTopic
            THEN [t3 EXCEPT !.stopCollecting = TRUE, !.lastOp = ""]
          ELSE [t3 EXCEPT !.lastOp = ""]
     ELSE stepInner(t3, log)

\* a step that goes on collecting after the stop marker
stepMutant(t, log) == stepCollect(t, log)
\* step(log, db)
step(t, log) ==
  IF t.stopCollecting THEN t ELSE stepCollect(t, log)

\* enter(frame)
enter(t, frame) ==
  IF t.stopCollecting THEN t
  ELSE [t EXCEPT !.calls = Append(@, MethodInfo(frame.type, frame.from, frame.to))]

\* exit(frame)
exit(t, frame) ==
  IF t.stopCollecting THEN t
  ELSE [t EXCEPT !.calls =
          Append(@, ExitInfo(IF frame.error THEN "REVERT" ELSE "RETURN", frame.gasUsed))]

\* result(): what the caller of debug_traceCall receives
result(t) ==
  [callsFromEntryPoint |-> t.callsFromEntryPoint, keccak |-> t.keccak,
   logs |-> t.logs, calls |-> t.calls]

\* mergeStorageMap(mergedStorageMap, validationStorageMap): a StorageMap
\* gives every address a root hash (a string) or a SlotMap, or nothing
NoSlots == [s \in TraceSlots |-> Null]
NoStorage == [present |-> FALSE, root |-> Null, slots |-> NoSlots]
RootHash(root) == [present |-> TRUE, root |-> root, slots |-> NoSlots]
SlotMap(slots) == [present |-> TRUE, root |-> Null, slots |-> slots]
EmptyStorageMap == [a \in TraceAddrs |-> NoStorage]

\* a merge that lets the slots of the validation replace a stored root hash
mergeStorageMapMutant(mergedStorageMap, validationStorageMap) ==
  [addr \in DOMAIN mergedStorageMap |->
     LET validationEntry == validationStorageMap[addr]
         merged == mergedStorageMap[addr]
     IN IF ~validationEntry.present THEN merged
        ELSE IF validationEntry.root # Null THEN RootHash(validationEntry.root)
        ELSE SlotMap([slot \in TraceSlots |->
                        IF validationEntry.slots[slot] # Null
                        THEN validationEntry.slots[slot] ELSE merged.slots[slot]])]
mergeStorageMap(mergedStorageMap, validationStorageMap) ==
  [addr \in DOMAIN mergedStorageMap |->
     LET validationEntry == validationStorageMap[addr]
         merged == mergedStorageMap[addr]
     IN IF ~validationEntry.present THEN merged
        ELSE IF validationEntry.root # Null THEN RootHash(validationEntry.root)
        ELSE IF merged.present /\ merged.root # Null THEN merged
        ELSE SlotMap([slot \in TraceSlots |->
                        IF validationEntry.slots[slot] # Null
                        THEN validationEntry.slots[slot] ELSE merged.slots[slot]])]

\* the callbacks geth has made in the trace under way, and the contracts of
\* the open call frames (the first is the EntryPoint)
NoTrace == [steps |-> <<>>, frames |-> <<EntryPointAddress>>]


----------------------------------------------------------------------------
(* The bundler with concurrent callers *)

Init ==
  /\ mempool = <<>>
  /\ entryCount = NoCounts
  /\ entries = NoEntries
  /\ whitelist = {}
  /\ blackList = {}
  /\ execMutex = <<>>
  /\ bundleMutex = <<>>
  /\ pc = [p \in Procs |-> "idle"]
  /\ loc = [p \in Procs |-> IdleLoc]
  /\ maxMempoolSize = 0
  /\ autoInterval = 0
  /\ timers = NoTimers
  /\ lastBlock = 0
  /\ chain = <<>>
  /\ live = <<>>
  /\ removed = {}
  /\ thrown = <<>>
  /\ pending = <<>>
  /\ tracer = bundlerCollectorTracer
  /\ trace = NoTrace
  /\ storageMap = EmptyStorageMap

\* the ops clients submit
OpA == UserOp("0xaa", 0, "0x", "0x", 10, 10, 1)
OpB == UserOp("0xbb", 0, "0x", "0x", 10, 10, 1)
Ops == {OpA, OpB}

ValidationResult(storage, preOpGas, prefund) ==
  [storage |-> storage, preOpGas |-> preOpGas, prefund |-> prefund]

Callers == RpcProcs \cup TimerProcs

Next ==
  \/ \E p \in RpcProcs, op \in Ops : SendUserOperation(p, op)
  \/ \E p \in RpcProcs : SuEnter(p)
  \/ \E p \in RpcProcs, ok \in BOOLEAN : SuValidated(p, ok, FALSE, FALSE, FALSE, 1)
  \/ \E p \in RpcProcs : SuAdd(p)
  \/ \E p \in TimerProcs : TimerTick(p)
  \/ \E p \in Callers : NbEnter(p)
  \/ \E p \in Callers : HpeBlock(p)
  \/ \E p \in Callers : HpeQuery(p)
  \/ \E p \in Callers, ok \in BOOLEAN : CbValidated(p, ok, ValidationResult({}, 1, 1))
  \/ \E p \in Callers : SbSendOk(p)
  \/ \E p \in Callers, i \in 1..2 : SbSendFailedOp(p, i, "other")
  \/ \E p \in Callers, fatal \in BOOLEAN : SbSendError(p, fatal)
  \/ LiveEvent
  \/ \E op \in OpsOf(mempool) : OtherBundlerMines(op)
  \/ HourlyCronTick
  \/ SetBundlingMode("auto")
  \/ SetBundleInterval(1, 2)
  \/ SetReputationCron(1)

Spec == Init /\ [][Next]_vars

----------------------------------------------------------------------------
(* The mempool under one client and the auto-bundler, with ops that share
   addresses across roles and spellings *)

OpM1 == UserOp("0xaa", 0, "0x", "0x", 10, 10, 1)
OpM2 == UserOp("0xAA", 0, "0x", "0x", 10, 10, 1)      \* OpM1, sender spelled in capitals
OpM3 == UserOp("0xbb", 0, "0x", "0xaa", 10, 10, 1)    \* its paymaster is OpM1's sender
OpM4 == UserOp("0xaa", 0, "0x", "0xCC", 11, 11, 1)    \* replaces OpM1, adds a paymaster
OpM5 == UserOp("0xAA", 1, "0xcc", "0x", 10, 12, 1)    \* next nonce, deploys with factory
OpM6 == UserOp("0xbb", 1, "0x", "0x12", 10, 10, 1)    \* paymasterAndData too short
OpsM == {OpM1, OpM2, OpM3, OpM4, OpM5, OpM6}

NextMempool ==
  \/ \E op \in OpsM : SendUserOperation("rpc1", op)
  \/ SuEnter("rpc1")
  \/ \E ok \in BOOLEAN : SuValidated("rpc1", ok, FALSE, FALSE, FALSE, 1)
  \/ SuAdd("rpc1")
  \/ NbEnter("rpc1")
  \/ HpeBlock("rpc1")
  \/ HpeQuery("rpc1")
  \/ \E ok \in BOOLEAN, st \in {{}, {"0xbb"}} :
       CbValidated("rpc1", ok, ValidationResult(st, 1, 1))
  \/ \E b \in {0, 1} : CbBalanceOf("rpc1", b)
  \/ SbSendOk("rpc1")
  \/ \E i \in 1..2, r \in {"AA1", "AA2", "AA3", "other"} : SbSendFailedOp("rpc1", i, r)
  \/ \E fatal \in BOOLEAN : SbSendError("rpc1", fatal)
  \/ LiveEvent
  \/ ClearState
  \/ SetBundleInterval(0, 2)

SpecMempool == Init /\ [][NextMempool]_vars

----------------------------------------------------------------------------
(* The ReputationManager alone, driven through its public methods *)

RepUnchanged ==
  /\ UNCHANGED <<mempool, entryCount, execMutex, bundleMutex, pc, loc, maxMempoolSize,
                 autoInterval, timers, lastBlock, chain, live, removed>>
  /\ NoThrow /\ UNCHANGED <<pending, collector>>

UpdateSeenStatus(addr) ==
  /\ CanBump(entries[toLowerCase(addr)])
  /\ entries' = updateSeenStatus(entries, addr)
  /\ UNCHANGED <<whitelist, blackList>>
  /\ RepUnchanged

UpdateIncludedStatus(addr) ==
  /\ CanBump(entries[toLowerCase(addr)])
  /\ entries' = updateIncludedStatus(entries, addr)
  /\ UNCHANGED <<whitelist, blackList>>
  /\ RepUnchanged

CrashedHandleOps(addr) ==
  /\ CanCrash(entries[toLowerCase(addr)])
  /\ entries' = crashedHandleOps(entries, addr)
  /\ UNCHANGED <<whitelist, blackList>>
  /\ RepUnchanged

HourlyCron ==
  /\ entries' = hourlyCron(entries)
  /\ UNCHANGED <<whitelist, blackList>>
  /\ RepUnchanged

ReputationEntry(address, seen, incl) ==
  [address |-> address, opsSeen |-> seen, opsIncluded |-> incl]

RepStrings == {"0xaa", "0xAA"}
RepDumps == {<<ReputationEntry(a, sn, 0)>> : a \in RepStrings, sn \in {24, 600}}

NextRep ==
  \/ \E a \in RepStrings : UpdateSeenStatus(a)
  \/ \E a \in RepStrings : UpdateIncludedStatus(a)
  \/ \E a \in RepStrings : CrashedHandleOps(a)
  \/ HourlyCron
  \/ \E d \in RepDumps : SetReputation(d)
  \/ ClearReputation
  \/ \E a \in RepStrings : AddWhitelist(a)
  \/ \E a \in RepStrings : AddBlacklist(a)

SpecRep == Init /\ [][NextRep]_vars

----------------------------------------------------------------------------
(* Bundle building: a client fills the mempool in manual mode, the debug RPC
   sendBundleNow builds; two ops share the paymaster 0xcc *)

OpG1 == UserOp("0xaa", 0, "0x", "0xcc", 20, 10, 1)
OpG2 == UserOp("0xbb", 0, "0x", "0xcc", 20, 11, 1)
OpG3 == UserOp("0xdd", 0, "0x", "0x", 20, 12, 1)
OpsG == {OpG1, OpG2, OpG3}

\* what simulateValidation returns for each op: returnInfo.preOpGas, returnInfo.prefund
preOpGasOf(op) == 1
prefundOf(op) == IF op = OpG2 THEN 2 ELSE 1

\* the deposits balanceOf may report for a paymaster
Balances == 0..3

BuildersG == {"rpc1", "debug"}

\* the op whose second validation p awaits
Current(p) == loc[p].snap[loc[p].i].userOp

NextBundle ==
  \/ \E op \in OpsG : SendUserOperation("rpc1", op)
  \/ SuEnter("rpc1")
  \/ \E ok \in BOOLEAN : SuValidated("rpc1", ok, FALSE, FALSE, FALSE, 1)
  \/ SuAdd("rpc1")
  \/ SendBundleNow("debug")
  \/ \E p \in BuildersG : NbEnter(p)
  \/ \E p \in BuildersG : HpeBlock(p)
  \/ \E p \in BuildersG : HpeQuery(p)
  \/ \E p \in BuildersG, ok \in BOOLEAN :
       /\ pc[p] = "cb_validate"
       /\ CbValidated(p, ok, ValidationResult({}, preOpGasOf(Current(p)), prefundOf(Current(p))))
  \/ \E p \in BuildersG, b \in Balances : CbBalanceOf(p, b)
  \/ \E p \in BuildersG : SbSendOk(p)
  \/ \E p \in BuildersG : SbSendError(p, FALSE)
  \/ LiveEvent
  \/ SetBundlingMode("manual")

SpecBundle == Init /\ [][NextBundle]_vars

----------------------------------------------------------------------------
(* Replacement: one client resubmits ops for the same (sender, nonce) with
   other fees and other paymasters *)

OpR1 == UserOp("0xaa", 0, "0x", "0x", 50, 50, 1)
OpR2 == UserOp("0xaa", 0, "0x", "0x", 55, 55, 1)      \* OpR1 with both fees + 10%
OpR3 == UserOp("0xaa", 0, "0x", "0xbb", 60, 60, 1)    \* higher fees, paymaster 0xbb
OpR4 == UserOp("0xbb", 0, "0x", "0x", 10, 10, 1)
OpR5 == UserOp("0xbb", 0, "0x", "0x", 11, 11, 1)      \* OpR4 with both fees + 10%
OpR6 == UserOp("0xaa", 0, "0x", "0x", 60, 54, 1)      \* fee above, priority fee below + 10% of OpR1
OpsR == {OpR1, OpR2, OpR3, OpR4, OpR5, OpR6}

NextReplace ==
  \/ \E op \in OpsR : SendUserOperation("rpc1", op)
  \/ SuEnter("rpc1")
  \/ \E ok \in BOOLEAN : SuValidated("rpc1", ok, FALSE, FALSE, FALSE, 1)
  \/ SuAdd("rpc1")
  \/ NbEnter("rpc1")
  \/ HpeBlock("rpc1")
  \/ HpeQuery("rpc1")
  \/ \E ok \in BOOLEAN : CbValidated("rpc1", ok, ValidationResult({}, 1, 1))
  \/ \E b \in {0, 1} : CbBalanceOf("rpc1", b)
  \/ SbSendOk("rpc1")
  \/ SbSendError("rpc1", FALSE)
  \/ LiveEvent
  \/ SetBundlingMode("manual")

SpecReplace == Init /\ [][NextReplace]_vars

----------------------------------------------------------------------------
(* Every way out of the mempool while a client keeps submitting: events,
   the removals of the bundle build, handleOps reverting with FailedOp and
   the debug clear; one account with factory and paymaster, its fee bump,
   and a plain account *)

OpF1 == UserOp("0xbb", 0, "0xdd", "0xcc", 10, 10, 1)
OpF2 == UserOp("0xbb", 0, "0xdd", "0xcc", 11, 11, 1)    \* replaces OpF1
OpF3 == UserOp("0xaa", 0, "0x", "0x", 10, 10, 1)
OpsF == {OpF1, OpF2, OpF3}
FailedOpReasons == {"AA1", "AA2", "AA3", "other"}

NextFailedOp ==
  \/ \E op \in OpsF : SendUserOperation("rpc1", op)
  \/ SuEnter("rpc1")
  \/ SuValidated("rpc1", TRUE, FALSE, FALSE, FALSE, 1)
  \/ SuAdd("rpc1")
  \/ TimerTick("timer")
  \/ NbEnter("timer")
  \/ HpeBlock("timer")
  \/ HpeQuery("timer")
  \/ \E ok \in BOOLEAN : CbValidated("timer", ok, ValidationResult({}, 1, 1))
  \/ CbBalanceOf("timer", 1)
  \/ SbSendOk("timer")
  \/ \E i \in 1..2, r \in FailedOpReasons : SbSendFailedOp("timer", i, r)
  \/ SbSendError("timer", FALSE)
  \/ LiveEvent
  \/ ClearMempool
  \/ SetBundleInterval(1, 3)

SpecFailedOp == Init /\ [][NextFailedOp]_vars

----------------------------------------------------------------------------
(* Intake with the simulation result spelled out: validity windows around
   the clock, signatures, aggregators and verification gas *)

\* what simulateValidation can return: the EntryPoint reports an account's
\* validUntil of 0 as the largest uint48, so the window always has an end
ReturnInfos ==
  [sigFailed : BOOLEAN, validAfter : {Now - 1, Now, Now + 1},
   validUntil : {Now - 1, Now, Now + 29, Now + 30, Now + 31},
   extraGas : {1999, 2000}, aggregator : BOOLEAN]

NextValidate ==
  \/ \E op \in Ops : SendUserOperation("rpc1", op)
  \/ SuEnter("rpc1")
  \/ \E ok \in BOOLEAN, ri \in ReturnInfos : SuSimulated("rpc1", ok, ri)
  \/ SuChecked("rpc1", FALSE, FALSE, FALSE, 1)
  \/ SuAdd("rpc1")
  \/ NbEnter("rpc1")
  \/ HpeBlock("rpc1")
  \/ HpeQuery("rpc1")
  \/ \E ok \in BOOLEAN : CbValidated("rpc1", ok, ValidationResult({}, 1, 1))
  \/ SbSendOk("rpc1")
  \/ SbSendError("rpc1", FALSE)
  \/ LiveEvent
  \/ SetBundlingMode("manual")

SpecValidate == Init /\ [][NextValidate]_vars

----------------------------------------------------------------------------
(* Reconfiguration of the two timers while the auto-bundler runs *)

NextTimers ==
  \/ SendUserOperation("rpc1", OpA)
  \/ SuEnter("rpc1")
  \/ SuValidated("rpc1", TRUE, FALSE, FALSE, FALSE, 1)
  \/ SuAdd("rpc1")
  \/ TimerTick("timer")
  \/ \E p \in Callers : NbEnter(p)
  \/ \E p \in Callers : HpeBlock(p)
  \/ \E p \in Callers : HpeQuery(p)
  \/ \E p \in Callers : CbValidated(p, TRUE, ValidationResult({}, 1, 1))
  \/ \E p \in Callers : SbSendOk(p)
  \/ LiveEvent
  \/ HourlyCronTick
  \/ \E mode \in {"auto", "manual"} : SetBundlingMode(mode)
  \/ \E interval \in {1, 2} : SetBundleInterval(interval, 2)
  \/ \E interval \in {0, 1, 2} : SetReputationCron(interval)

SpecTimers == Init /\ [][NextTimers]_vars

----------------------------------------------------------------------------
(* Addresses in two roles: an account, its capital spelling, and an op that
   names the account as its paymaster; FailedOp AA2 bans the account *)

OpsRoles == {OpM1, OpM2, OpM3}

NextRoles ==
  \/ \E op \in OpsRoles : SendUserOperation("rpc1", op)
  \/ SuEnter("rpc1")
  \/ SuValidated("rpc1", TRUE, FALSE, FALSE, FALSE, 1)
  \/ SuAdd("rpc1")
  \/ NbEnter("rpc1")
  \/ HpeBlock("rpc1")
  \/ HpeQuery("rpc1")
  \/ CbValidated("rpc1", TRUE, ValidationResult({}, 1, 1))
  \/ CbBalanceOf("rpc1", 1)
  \/ SbSendOk("rpc1")
  \/ \E i \in 1..2 : SbSendFailedOp("rpc1", i, "AA2")
  \/ LiveEvent
  \/ SetBundlingMode("manual")

SpecRoles == Init /\ [][NextRoles]_vars

----------------------------------------------------------------------------
(* Exceptions on every path into attemptBundle: the auto-bundler timer, an
   intake that fills the mempool, and debug_bundler_sendBundleNow *)

NextErrors ==
  \/ \E op \in Ops : SendUserOperation("rpc1", op)
  \/ SuEnter("rpc1")
  \/ \E ok \in BOOLEAN : SuValidated("rpc1", ok, FALSE, FALSE, FALSE, 1)
  \/ SuAdd("rpc1")
  \/ TimerTick("timer")
  \/ SendBundleNow("debug")
  \/ \E p \in Procs : NbEnter(p)
  \/ \E p \in Procs : HpeBlock(p)
  \/ \E p \in Procs : HpeQuery(p)
  \/ \E p \in Procs : AwaitRejects(p)
  \/ \E p \in Procs : CbValidated(p, TRUE, ValidationResult({}, 1, 1))
  \/ \E p \in Procs : SbSendOk(p)
  \/ \E p \in Procs, fatal \in BOOLEAN : SbSendError(p, fatal)
  \/ LiveEvent
  \/ SetBundleInterval(1, 1)

SpecErrors == Init /\ [][NextErrors]_vars

----------------------------------------------------------------------------
(* Properties *)

\* the roles an op gives to addresses: sender, factory, paymaster (lowercased)
RolesOf(userOp) ==
  {toLowerCase(userOp.sender), getAddr(userOp.initCode), getAddr(userOp.paymasterAndData)}

\* C1: in every reachable state entryCount[a] is the number of mempool entries
\* whose sender, factory or paymaster is a
C1_EntryCountMatchesMempool ==
  \A a \in LowerAddrs :
    entryCount[a] = Cardinality({i \in 1..Len(mempool) : a \in RolesOf(mempool[i].userOp)})

\* C2: the mempool holds at most one entry for each (sender, nonce) pair
C2_OneEntryPerSenderNonce ==
  \A i, j \in 1..Len(mempool) :
    (/\ toLowerCase(mempool[i].userOp.sender) = toLowerCase(mempool[j].userOp.sender)
     /\ mempool[i].userOp.nonce = mempool[j].userOp.nonce) => i = j

\* the step in which the sendUserOperation of p throws
IntakeFails(p) ==
  \/ pc[p] \in {"su_lock", "su_validate"} /\ pc'[p] = "idle"
  \/ /\ pc[p] = "su_hash"
     /\ pc'[p] # "su_hash"
     /\ addUserOp(mempool, entryCount, entries, loc[p].userOp, loc[p].prefund,
                  loc[p].senderInfo, loc[p].paymasterInfo, loc[p].factoryInfo).err # "ok"

\* C3: a sendUserOperation that fails leaves the mempool, every entryCount and
\* every reputation counter as they were
C3_FailedIntakePersistsNothing ==
  [][\A p \in RpcProcs : IntakeFails(p) => UNCHANGED <<mempool, entryCount, entries>>]_vars

\* createBundle has taken its snapshot and sendBundle has not completed
BuildInProgress == \E q \in Procs : pc[q] \in {"cb_validate", "cb_balanceOf", "sb_send"}

\* the step in which addUserOp of p adds or replaces an entry
AddStep(p) == pc[p] = "su_hash" /\ pc'[p] # "su_hash" /\ mempool' # mempool

\* C4: no addUserOp adds or replaces an entry while a bundle build is in
\* progress, and no build is in progress while a sendUserOperation is between
\* its validation and its addUserOp
C4_BuildAndIntakeExclude ==
  /\ [](\A p \in RpcProcs : pc[p] = "su_hash" => ~BuildInProgress)
  /\ [][\A p \in RpcProcs : AddStep(p) => ~BuildInProgress]_vars

\* p is inside the section of sendUserOperation that ExecutionManager.mutex guards
InIntakeSection(p) == p \in RpcProcs /\ pc[p] \notin {"idle", "su_lock"}

\* p is running sendNextBundle
InSendNextBundle(p) ==
  \/ pc[p] \in {"cb_validate", "cb_balanceOf", "sb_send"}
  \/ pc[p] \in {"hpe_block", "hpe_query"} /\ loc[p].ctx = "bundle"

\* C5: at most one sendUserOperation is inside its validate, addUserOp,
\* attemptBundle section and at most one sendNextBundle is running
C5_MutualExclusion ==
  /\ Cardinality({p \in Procs : InIntakeSection(p)}) <= 1
  /\ Cardinality({p \in Procs : InSendNextBundle(p)}) <= 1

\* one caller builds while another waits for BundleManager.mutex, and one
\* intake is in its section while another waits for ExecutionManager.mutex
C5_Witness ==
  /\ \E p, q \in Procs : InSendNextBundle(p) /\ pc[q] = "nb_lock"
  /\ \E r, s \in RpcProcs : InIntakeSection(r) /\ pc[s] = "su_lock"

\* p is suspended at an await of an intake or of a bundle build
Suspended(p) == pc[p] \notin {"idle", "su_lock", "nb_lock"}

\* C6: every change of a reputation counter is a step of the caller that holds
\* ExecutionManager.mutex, taken while no other intake or build is suspended
C6_ReputationMutatedUnderLock ==
  [][entries' # entries =>
       \E p \in RpcProcs :
         /\ holdsLock(execMutex, p)
         /\ pc'[p] # pc[p] \/ loc'[p] # loc[p]
         /\ \A q \in Procs \ {p} : ~Suspended(q)]_vars

\* C7: a bundle handed to sendBundle holds no op that removeUserOp took out of
\* the mempool and that was not added again
C7_RemovedOpNotBundled ==
  [][\A p \in Procs :
       (pc'[p] = "sb_send" /\ pc[p] # "sb_send") =>
         \A i \in 1..Len(loc'[p].bundle) : loc'[p].bundle[i] \notin removed']_vars

\* C8: hourlyCron raises no opsSeen and no opsIncluded, and leaves no entry
\* whose counters are both 0
C8_HourlyCronDecays ==
  [][HourlyCron =>
       \A a \in RepAddrs :
         /\ entries'[a].opsSeen <= entries[a].opsSeen
         /\ entries'[a].opsIncluded <= entries[a].opsIncluded
         /\ entries'[a] # RepEntry(0, 0)]_vars

\* C9: getStatus is OK for every whitelisted address and BANNED for every
\* blacklisted one, whatever the counters
C9_ListsDecideStatus ==
  /\ \A w \in whitelist : getStatus(w) = OK
  /\ \A b \in blackList : getStatus(b) = BANNED

\* C10: a bundle built by createBundle holds at most one UserOperation of each sender
C10_OneOpPerSender ==
  \A p \in Procs :
    \A i, j \in 1..Len(loc[p].bundle) :
      toLowerCase(loc[p].bundle[i].sender) = toLowerCase(loc[p].bundle[j].sender) => i = j

\* the gas of a bundle: preOpGas of the second validation plus callGasLimit, per op
RECURSIVE BundleGas(_)
BundleGas(ops) ==
  IF ops = <<>> THEN 0
  ELSE preOpGasOf(Head(ops)) + Head(ops).callGasLimit + BundleGas(Tail(ops))

\* C11: the ops of a bundle built by createBundle sum to at most maxBundleGas
\* in preOpGas + callGasLimit
C11_BundleGasWithinLimit ==
  \A p \in Procs : BundleGas(loc[p].bundle) <= maxBundleGas

\* a bundle that fills maxBundleGas exactly, built by a loop that the gas
\* check stopped before the end of the snapshot
C11_Witness ==
  \E p \in Procs :
    /\ pc[p] = "sb_send"
    /\ BundleGas(loc[p].bundle) = maxBundleGas
    /\ loc[p].i <= Len(loc[p].snap)

\* the prefunds of the ops of a bundle that use paymaster
RECURSIVE PrefundsOn(_, _)
PrefundsOn(ops, paymaster) ==
  IF ops = <<>> THEN 0
  ELSE (IF getAddr(Head(ops).paymasterAndData) = paymaster THEN prefundOf(Head(ops)) ELSE 0)
       + PrefundsOn(Tail(ops), paymaster)

\* C12: within one createBundle the prefunds of the admitted ops of a
\* paymaster never exceed the balanceOf read at its first sight (what is left
\* of it is tracked and never negative), and a finished loop has examined the
\* whole snapshot unless the gas check stopped it
C12_PaymasterDepositTracked ==
  \A p \in Procs :
    /\ \A a \in LowerAddrs :
         IF loc[p].paymasterDeposit[a] = -1
         THEN PrefundsOn(loc[p].bundle, a) = 0
         ELSE /\ loc[p].paymasterDeposit[a] >= 0
              /\ loc[p].paymasterDeposit[a] + PrefundsOn(loc[p].bundle, a) \in Balances
    /\ pc[p] = "sb_send" =>
         \/ loc[p].i > Len(loc[p].snap)
         \/ exceedsBundleGas(BundleGas(loc[p].bundle) + preOpGasOf(Current(p))
                               + Current(p).callGasLimit)

\* balanceOf(0xcc) was the prefund of OpG1: OpG1 is admitted, OpG2 is skipped
\* for its prefund, OpG3 is examined and admitted
C12_Witness ==
  \E p \in Procs :
    /\ pc[p] = "sb_send"
    /\ loc[p].bundle = <<OpG1, OpG3>>
    /\ loc[p].paymasterDeposit["0xcc"] = 0
    /\ \E k \in 1..Len(loc[p].snap) : loc[p].snap[k].userOp = OpG2

\* the mempool positions that hold the (sender, nonce) pair of userOp
SlotsOf(userOp) ==
  {i \in 1..Len(mempool) :
     /\ toLowerCase(mempool[i].userOp.sender) = toLowerCase(userOp.sender)
     /\ mempool[i].userOp.nonce = userOp.nonce}

\* both fees of new are at least 1.1 times those of old
TenPercentAbove(new, old) ==
  /\ 10 * new.maxPriorityFeePerGas >= 11 * old.maxPriorityFeePerGas
  /\ 10 * new.maxFeePerGas >= 11 * old.maxFeePerGas

\* C13: addUserOp for a (sender, nonce) already in the mempool replaces the
\* entry in place, all counts unchanged, exactly when both fees are at least
\* 1.1 times the old ones; otherwise it fails with InvalidFields and the old
\* entry stays
C13_ReplacementRule ==
  [][\A p \in RpcProcs :
       (pc[p] = "su_hash" /\ pc'[p] # "su_hash") =>
         \A i \in SlotsOf(loc[p].userOp) :
           IF TenPercentAbove(loc[p].userOp, mempool[i].userOp)
           THEN /\ mempool' = [mempool EXCEPT ![i] = MempoolEntry(loc[p].userOp, loc[p].prefund)]
                /\ entryCount' = entryCount
           ELSE /\ mempool' = mempool
                /\ addUserOp(mempool, entryCount, entries, loc[p].userOp, loc[p].prefund,
                             loc[p].senderInfo, loc[p].paymasterInfo,
                             loc[p].factoryInfo).err = "InvalidFields"]_vars

\* C15: no address is the sender of a mempool entry and the paymaster or
\* factory of a mempool entry
C15_NoAddressInTwoRoles ==
  \A i, j \in 1..Len(mempool) :
    toLowerCase(mempool[i].userOp.sender)
      \notin {getAddr(mempool[j].userOp.paymasterAndData), getAddr(mempool[j].userOp.initCode)}

\* userOp would give an address a second role: its sender is a paymaster or
\* factory in the mempool, or its paymaster or factory is a sender in the mempool
SecondRole(userOp) ==
  \E i \in 1..Len(mempool) :
    \/ toLowerCase(userOp.sender) \in {getAddr(mempool[i].userOp.paymasterAndData),
                                       getAddr(mempool[i].userOp.initCode)}
    \/ toLowerCase(mempool[i].userOp.sender) \in {getAddr(userOp.paymasterAndData),
                                                  getAddr(userOp.initCode)}

\* the error of the addUserOp that p is about to run ("ok" = none)
AddError(p) ==
  addUserOp(mempool, entryCount, entries, loc[p].userOp, loc[p].prefund,
            loc[p].senderInfo, loc[p].paymasterInfo, loc[p].factoryInfo).err

\* addUserOp of p runs for an op with a new (sender, nonce) that would give an
\* address a second role
SecondRoleAdd(p) ==
  /\ pc[p] = "su_hash" /\ pc'[p] # "su_hash"
  /\ SlotsOf(loc[p].userOp) = {}
  /\ SecondRole(loc[p].userOp)

\* C14 as stated: such an addUserOp is rejected with OpcodeValidation
C14_SecondRoleRejectedAsOpcodeValidation ==
  [][\A p \in RpcProcs :
       SecondRoleAdd(p) => mempool' = mempool /\ AddError(p) = "OpcodeValidation"]_vars

\* the error of checkReputation in the addUserOp that p is about to run
ReputationError(p) ==
  checkReputation(incrementAll(entryCount, loc[p].userOp),
                  loc[p].senderInfo, loc[p].paymasterInfo, loc[p].factoryInfo)

\* C14: addUserOp of an op with a new (sender, nonce) that would give an
\* address a second role is rejected: with the error of checkReputation when
\* that check, which runs first, fails, and with OpcodeValidation otherwise
C14_SecondRoleRejected ==
  [][\A p \in RpcProcs :
       SecondRoleAdd(p) =>
         /\ mempool' = mempool
         /\ pc'[p] = "idle"
         /\ AddError(p) = IF ReputationError(p) = "ok" THEN "OpcodeValidation"
                          ELSE ReputationError(p)]_vars

\* an addUserOp about to be rejected with OpcodeValidation: the paymaster of
\* the new op is the sender of an entry
C14_Witness ==
  \E p \in RpcProcs :
    /\ pc[p] = "su_hash"
    /\ SlotsOf(loc[p].userOp) = {}
    /\ \E i \in 1..Len(mempool) :
         toLowerCase(mempool[i].userOp.sender) = getAddr(loc[p].userOp.paymasterAndData)
    /\ AddError(p) = "OpcodeValidation"

\* sendBundle of p ends without a mined transaction
SendBundleFails(p) == pc[p] = "sb_send" /\ pc'[p] # "sb_send" /\ chain' = chain

\* the reputation entries after addr is charged for a failed handleOps
Crashed(addr) ==
  IF addr = Null THEN entries
  ELSE LET a == toLowerCase(addr)
           seen == IF entries[a] = NoEntry THEN 0 ELSE entries[a].opsSeen
       IN [entries EXCEPT ![a] = [opsSeen |-> seen + 10000, opsIncluded |-> 0]]

\* the mempool without userOp
Without(userOp) == SelectSeq(mempool, LAMBDA e : e.userOp # userOp)

\* C16: when sendBundle ends without a transaction, either the factory, the
\* sender or the paymaster of one op of the bundle is charged (opsSeen +10000,
\* opsIncluded 0) and the mempool is unchanged, or the reputation is unchanged
\* and at most that one op has left the mempool
C16_FailedOpHandling ==
  [][\A p \in Callers :
       (SendBundleFails(p) /\ loc[p].bundle # <<>>) =>
         \E i \in 1..Len(loc[p].bundle) :
           LET userOp == loc[p].bundle[i] IN
           \/ /\ mempool' = mempool
              /\ entries' \in {entries, Crashed(getAddr(userOp.initCode)),
                               Crashed(userOp.sender),
                               Crashed(getAddr(userOp.paymasterAndData))}
           \/ /\ entries' = entries
              /\ mempool' = Without(userOp)]_vars

\* the inclusions the chain has logged for address a: one for each
\* UserOperationEvent naming it as sender, one for each naming it as
\* paymaster, one for each AccountDeployed naming it as factory
Inclusions(a) ==
  Cardinality({i \in 1..Len(chain) :
                 chain[i].event = "UserOperationEvent" /\ chain[i].sender = a})
  + Cardinality({i \in 1..Len(chain) :
                   chain[i].event = "UserOperationEvent" /\ chain[i].paymaster = a})
  + Cardinality({i \in 1..Len(chain) :
                   chain[i].event = "AccountDeployed" /\ chain[i].factory = a})

\* C17: an on-chain event credits inclusion once: no address has more
\* opsIncluded than the chain has logged inclusions for it, whatever the
\* interleaving of the live subscription and the handlePastEvents replays
C17_InclusionCreditedOnce ==
  \A a \in RepAddrs : entries[a] # NoEntry => entries[a].opsIncluded <= Inclusions(a)

\* invocation p, suspended at await `at`, resumes in this step
Steps(p, at) == pc[p] = at /\ <<pc[p], loc[p]>>' # <<pc[p], loc[p]>>

\* the ops whose entries leave the mempool in a step that shrinks it (a fee
\* bump overwrites its entry in place: the mempool keeps its length)
Leaving ==
  IF Len(mempool') < Len(mempool) THEN OpsOf(mempool) \ OpsOf(mempool') ELSE {}

\* this step handles a UserOperationEvent for the hash of userOp: the live
\* subscription delivers it, or a handlePastEvents replay returns it
EventObserved(userOp) ==
  \/ /\ live # <<>> /\ live' = Tail(live)
     /\ Head(live).userOpHash = getUserOpHash(userOp)
  \/ \E p \in Procs :
       /\ Steps(p, "hpe_query")
       /\ \E i \in 1..Len(chain) :
            /\ chain[i].blockNumber >= loc[p].from
            /\ chain[i].event = "UserOperationEvent"
            /\ chain[i].userOpHash = getUserOpHash(userOp)

\* this step is debug_bundler_clearMempool or debug_bundler_clearState
DebugClear == mempool' = <<>> /\ entryCount' = NoCounts /\ UNCHANGED <<pc, loc, live, chain>>

\* a and b occupy the same mempool slot: removeUserOp(userOp) finds its
\* entry by sender and nonce
SameSlot(a, b) == a.sender = b.sender /\ a.nonce = b.nonce

\* this step is the second validation of userOp failing in createBundle
SecondValidationFails(userOp) ==
  \E p \in Procs :
    /\ Steps(p, "cb_validate")
    /\ Current(p) = userOp

\* C18 as stated: an entry leaves the mempool only through an observed
\* UserOperationEvent for its hash, a debug clear, or the failure of its
\* second validation during the bundle build
C18_ThreeWaysOut ==
  [][\A userOp \in Leaving :
       EventObserved(userOp) \/ DebugClear \/ SecondValidationFails(userOp)]_vars

\* this step runs the loop of createBundle for p
InCreateBundle(p) ==
  \/ Steps(p, "hpe_query") /\ loc[p].ctx = "bundle"
  \/ Steps(p, "cb_validate")
  \/ Steps(p, "cb_balanceOf")

\* this step is a removeUserOp call of the bundler for the slot of userOp:
\* in createBundle for an entry whose second validation fails or whose
\* paymaster or factory is BANNED, in sendBundle for the op that FailedOp
\* names with a reason other than AA1, AA2, AA3
BundlerRemoves(userOp) ==
  \E p \in Procs :
    \/ /\ Steps(p, "cb_validate")
       /\ SameSlot(Current(p), userOp)
    \/ /\ InCreateBundle(p)
       /\ \E e \in OpsOf(mempool) \cup OpsOf(loc[p].snap) :
            /\ SameSlot(e, userOp)
            /\ BANNED \in {statusOf(entries', whitelist, blackList, getAddr(e.paymasterAndData)),
                           statusOf(entries', whitelist, blackList, getAddr(e.initCode))}
    \/ /\ SendBundleFails(p)
       /\ entries' = entries
       /\ \E i \in 1..Len(loc[p].bundle) : SameSlot(loc[p].bundle[i], userOp)

\* C18: an entry leaves the mempool only through an observed
\* UserOperationEvent for its hash, a debug clear, or a removeUserOp call of
\* the bundler for its sender and nonce (second validation failed, paymaster
\* or factory BANNED, FailedOp with a reason other than AA1, AA2, AA3)
C18_WaysOut ==
  [][\A userOp \in Leaving :
       EventObserved(userOp) \/ DebugClear \/ BundlerRemoves(userOp)]_vars

\* a bundle build has passed a snapshot entry with a BANNED paymaster and
\* the entry has left the mempool
C18_Witness ==
  \E p \in Procs :
    /\ pc[p] \in {"cb_validate", "cb_balanceOf", "sb_send"}
    /\ \E k \in 1..Len(loc[p].snap) :
         /\ k < loc[p].i
         /\ getStatus(getAddr(loc[p].snap[k].userOp.paymasterAndData)) = BANNED
         /\ \A i \in 1..Len(mempool) : ~SameSlot(mempool[i].userOp, loc[p].snap[k].userOp)

\* C19: validateUserOp passes the time-range check exactly when
\* validAfter <= now and (validUntil = 0 or validUntil >= now + 30), and
\* otherwise throws NotInTimeRange and nothing is stored
C19_TimeRangeCheck ==
  [][\A p \in RpcProcs :
       (Steps(p, "su_codehash") /\ ~loc[p].returnInfo.sigFailed) =>
         LET ri == loc[p].returnInfo
             inRange == /\ ri.validAfter <= Now
                        /\ (ri.validUntil = 0 \/ ri.validUntil >= Now + 30)
             err == validateChecks(ri, Now)
         IN IF inRange THEN err # "NotInTimeRange"
            ELSE err = "NotInTimeRange" /\ pc'[p] = "idle" /\ mempool' = mempool]_vars

\* C20: timers are replaced at reconfiguration: at most one auto-bundle
\* timer and one reputation timer are active, the active auto-bundle timer is
\* the one the last setAutoBundler call set, none is active after
\* setAutoBundler(0, n), and a timer-driven attemptBundle starts only from
\* the timer of the last call
C20_TimersReplaced ==
  /\ [](/\ Len(timers.auto) <= 1
        /\ Len(timers.cron) <= 1
        /\ timers.auto # <<>> => timers.auto = <<autoInterval>> /\ timers.autoBundleInterval = 1
        /\ timers.cron # <<>> => timers.reputationCron = 1
        /\ autoInterval = 0 => timers.auto = <<>>)
  /\ [][\A p \in TimerProcs :
          (pc[p] = "idle" /\ pc'[p] # "idle") =>
            autoInterval # 0 /\ timers.auto = <<autoInterval>>]_vars

\* a timer-driven attemptBundle is still in flight after setAutoBundler(0, n)
\* cancelled the timer that started it
C20_Witness ==
  /\ pc["timer"] # "idle"
  /\ autoInterval = 0
  /\ timers.auto = <<>>

\* C21: an exception that leaves a timer-driven attemptBundle is caught and
\* logged, one on an RPC path (sendUserOperation, sendBundleNow) rejects to
\* the caller; either way the invocation is over, the timers are as they
\* were (later ticks stay enabled) and the invocation holds and awaits no
\* lock; an invocation that is idle never holds or awaits one
C21_TimerErrorsSwallowed ==
  /\ [][thrown' # <<>> =>
          LET p == thrown'[1] IN
          /\ thrown'[2] = (IF p = "timer" THEN "console.error" ELSE "caller")
          /\ timers' = timers
          /\ pc'[p] = "idle"
          /\ p \notin SeqToSet(bundleMutex') \cup SeqToSet(execMutex')]_vars
  /\ [](\A p \in Procs :
          pc[p] = "idle" => p \notin SeqToSet(bundleMutex) \cup SeqToSet(execMutex))

\* an exception of the auto-bundler has just been logged, its timer is still
\* set and the bundle lock is free for the next caller
C21_Witness ==
  /\ thrown = <<"timer", "console.error">>
  /\ timers.auto # <<>>
  /\ "timer" \notin SeqToSet(bundleMutex)

\* ---- getStatus over counters around the two thresholds ----

StatusSeen == {99, 100, 109, 110, 119, 120, 509, 510, 519, 520, 529}
StatusDumps ==
  {<<ReputationEntry(a, sn, incl)>> : a \in RepStrings, sn \in StatusSeen, incl \in {0, 1}}

NextStatus ==
  \/ \E d \in StatusDumps : SetReputation(d)
  \/ \E a \in RepStrings : UpdateIncludedStatus(a)
  \/ ClearReputation
  \/ \E a \in RepStrings : AddWhitelist(a)
  \/ \E a \in RepStrings : AddBlacklist(a)

SpecStatus == Init /\ [][NextStatus]_vars

\* no spelling of the address is on the list
Unlisted(list, a) == \A s \in list : toLowerCase(s) # toLowerCase(a)

\* C22: for an address that is neither whitelisted nor blacklisted and has an
\* entry, getStatus is OK when floor(opsSeen / minInclusionDenominator) is at
\* most opsIncluded + throttlingSlack, else THROTTLED when it is at most
\* opsIncluded + banSlack, else BANNED (floor(x / d) <= k is stated as
\* x < d * (k + 1)); an address without an entry, or no address, is OK
C22_StatusRule ==
  /\ getStatus(Null) = OK
  /\ \A a \in AddrStrings \cup {AddressZero} :
       (Unlisted(whitelist, a) /\ Unlisted(blackList, a)) =>
         LET e == entries[toLowerCase(a)]
             d == params.minInclusionDenominator IN
         getStatus(a) =
           IF e = NoEntry THEN OK
           ELSE IF e.opsSeen < d * (e.opsIncluded + params.throttlingSlack + 1) THEN OK
           ELSE IF e.opsSeen < d * (e.opsIncluded + params.banSlack + 1) THEN THROTTLED
           ELSE BANNED

\* an unlisted address with one inclusion sits exactly on the throttling
\* threshold
C22_Witness ==
  /\ whitelist = {} /\ blackList = {}
  /\ entries["0xaa"] # NoEntry
  /\ entries["0xaa"].opsIncluded = 1
  /\ entries["0xaa"].opsSeen \div params.minInclusionDenominator
       = entries["0xaa"].opsIncluded + params.throttlingSlack
  /\ getStatus("0xAA") = OK

\* ---- the inclusion order: two ops of equal priority fee, then a cheaper one ----

OpS1 == UserOp("0xaa", 0, "0x", "0x", 20, 11, 1)
OpS2 == UserOp("0xbb", 0, "0x", "0x", 20, 11, 1)
OpS3 == UserOp("0xdd", 0, "0x", "0x", 20, 10, 1)
OpsSort == {OpS1, OpS2, OpS3}

NextSort ==
  \/ \E op \in OpsSort : SendUserOperation("rpc1", op)
  \/ SuEnter("rpc1")
  \/ SuValidated("rpc1", TRUE, FALSE, FALSE, FALSE, 1)
  \/ SuAdd("rpc1")
  \/ SendBundleNow("debug")
  \/ \E p \in BuildersG : NbEnter(p)
  \/ \E p \in BuildersG : HpeBlock(p)
  \/ \E p \in BuildersG : HpeQuery(p)
  \/ \E p \in BuildersG : CbValidated(p, TRUE, ValidationResult({}, 1, 1))
  \/ \E p \in BuildersG : SbSendOk(p)
  \/ LiveEvent
  \/ SetBundlingMode("manual")

SpecSort == Init /\ [][NextSort]_vars

\* s holds the entries of mp, each once, in non-decreasing maxPriorityFeePerGas,
\* entries of equal fee in the order they have in mp
IsStableSortOf(s, mp) ==
  /\ Len(s) = Len(mp)
  /\ \E f \in [1..Len(mp) -> 1..Len(mp)] :
       /\ \A i, j \in 1..Len(mp) : f[i] = f[j] => i = j
       /\ \A i \in 1..Len(mp) : s[i] = mp[f[i]]
       /\ \A i, j \in 1..Len(mp) :
            i < j =>
              /\ s[i].userOp.maxPriorityFeePerGas <= s[j].userOp.maxPriorityFeePerGas
              /\ s[i].userOp.maxPriorityFeePerGas = s[j].userOp.maxPriorityFeePerGas
                   => f[i] < f[j]

\* C23: getSortedForInclusion returns a permutation of the mempool entries in
\* non-decreasing maxPriorityFeePerGas order, entries of equal fee keeping
\* their mempool order; the list createBundle iterates is that copy, and
\* taking it leaves the mempool as event handling left it
C23_SortedForInclusion ==
  /\ [](IsStableSortOf(getSortedForInclusion(mempool), mempool))
  /\ [][\A p \in Procs :
          (Steps(p, "hpe_query") /\ loc[p].ctx = "bundle") =>
            /\ IsStableSortOf(loc'[p].snap, mempool')
            /\ mempool' = handleEvents([mempool |-> mempool, entryCount |-> entryCount,
                                        entries |-> entries, lastBlock |-> lastBlock],
                                       queryFilter(loc[p].from)).mempool]_vars

\* a build iterates a copy that moved the cheapest op, last in the mempool,
\* in front of two ops of equal fee
C23_Witness ==
  \E p \in Procs :
    /\ pc[p] = "cb_validate"
    /\ Len(mempool) = 3 /\ Len(loc[p].snap) = 3
    /\ mempool[1].userOp.maxPriorityFeePerGas = mempool[2].userOp.maxPriorityFeePerGas
    /\ loc[p].snap = <<mempool[3], mempool[1], mempool[2]>>

\* ---- two clients, the auto-bundler and the debug RPC contend for the two
\* locks; every call into the node or the EntryPoint returns or throws ----

\* the continuations of invocation p: a lock is granted, or an awaited call
\* returns or rejects
Resume(p) ==
  \/ SuEnter(p)
  \/ \E ok \in BOOLEAN : SuValidated(p, ok, FALSE, FALSE, FALSE, 1)
  \/ SuAdd(p)
  \/ NbEnter(p)
  \/ HpeBlock(p)
  \/ HpeQuery(p)
  \/ AwaitRejects(p)
  \/ \E ok \in BOOLEAN : CbValidated(p, ok, ValidationResult({}, 1, 1))
  \/ SbSendOk(p)
  \/ \E fatal \in BOOLEAN : SbSendError(p, fatal)

NextLocks ==
  \/ \E p \in RpcProcs : SendUserOperation(p, OpA)
  \/ TimerTick("timer")
  \/ SendBundleNow("debug")
  \/ \E p \in Procs : Resume(p)
  \/ LiveEvent
  \/ SetBundleInterval(1, 1)

\* the event loop runs every continuation that is ready, and every awaited
\* call settles
SpecLocks == Init /\ [][NextLocks]_vars /\ \A p \in Procs : WF_vars(Resume(p))

\* invocation p is over and holds or awaits neither lock
Finished(p) ==
  pc[p] = "idle" /\ p \notin SeqToSet(bundleMutex) \cup SeqToSet(execMutex)

\* C24: no sendUserOperation, timer tick or sendBundleNow stays in progress
\* for ever: each invocation is, again and again, over and holding or awaiting
\* neither lock, whatever throws on the way, and no sendUserOperation waits
\* for ExecutionManager.mutex for ever
C24_NoDeadlock ==
  /\ \A p \in Procs : []<>Finished(p)
  /\ \A p \in RpcProcs : []<>(pc[p] # "su_lock")

\* a client holds ExecutionManager.mutex and waits for BundleManager.mutex,
\* which the auto-bundler holds, with the debug RPC and a second client queued
C24_Witness ==
  /\ pc["rpc1"] = "nb_lock" /\ holdsLock(execMutex, "rpc1")
  /\ holdsLock(bundleMutex, "timer")
  /\ pc["debug"] = "nb_lock"
  /\ pc["rpc2"] = "su_lock"

\* ---- a bundler started with conditionalRpc: handleOps transactions wait in
\* the node while further bundles are built ----

NextConditional ==
  \/ \E op \in Ops : SendUserOperation("rpc1", op)
  \/ SuEnter("rpc1")
  \/ SuValidated("rpc1", TRUE, FALSE, FALSE, FALSE, 1)
  \/ SuAdd("rpc1")
  \/ SendBundleNow("debug")
  \/ \E p \in BuildersG : NbEnter(p)
  \/ \E p \in BuildersG : HpeBlock(p)
  \/ \E p \in BuildersG : HpeQuery(p)
  \/ \E p \in BuildersG, ok \in BOOLEAN : CbValidated(p, ok, ValidationResult({}, 1, 1))
  \/ \E p \in BuildersG : SbSendConditional(p)
  \/ \E p \in BuildersG : SbSendError(p, FALSE)
  \/ TxMined
  \/ LiveEvent

SpecConditional == Init /\ [][NextConditional]_vars

\* the ops whose handleOps transaction is sent and whose UserOperationEvent
\* the bundler has not observed: the transaction is unmined, or the event is
\* neither delivered nor replayed yet (the op is still in the mempool)
Unobserved ==
  UNION {SeqToSet(pending[i]) : i \in 1..Len(pending)}
    \cup {op \in OpsOf(mempool) : getUserOpHash(op) \in minedHashes}

\* C25: while an op sent in a handleOps transaction has its
\* UserOperationEvent unobserved, no further sendNextBundle sends a bundle
\* holding it: no op is in two handleOps transactions
C25_NoOpSentTwice ==
  [][\A p \in Procs :
       (Steps(p, "sb_send") /\ pending' # pending) =>
         SeqToSet(loc[p].bundle) \cap Unobserved = {}]_vars

\* ---- six accounts sponsored by one staked paymaster, each op of negligible
\* gas; the ops arrive in a fixed order ----

SharedSenders == <<"0xaa", "0xbb", "0xdd", "0xe1", "0xe2", "0xe3">>
OpP(k) == UserOp(SharedSenders[k], 0, "0x", "0xcc", 10, 10, 0)

\* the next op the clients send: one per account, in order
NextShared ==
  \/ /\ Len(mempool) < Len(SharedSenders)
     /\ Offered(MaxLoad, MaxLoad + 1, MaxLoad + 1)
     /\ Submit("rpc1", OpP(Len(mempool) + 1))
  \/ SuEnter("rpc1")
  \/ SuValidated("rpc1", TRUE, FALSE, TRUE, FALSE, 1)
  \/ SuAdd("rpc1")
  \/ SendBundleNow("debug")
  \/ \E p \in BuildersG : NbEnter(p)
  \/ \E p \in BuildersG : HpeBlock(p)
  \/ \E p \in BuildersG : HpeQuery(p)
  \/ \E p \in BuildersG : CbValidated(p, TRUE, ValidationResult({}, 0, 1))
  \/ \E p \in BuildersG : CbBalanceOf(p, MaxLoad)
  \/ \E p \in BuildersG : SbSendOk(p)
  \/ LiveEvent
  \/ SetBundlingMode("manual")

SpecShared == Init /\ [][NextShared]_vars

\* the ops of a bundle that name entity as paymaster or factory
SharingEntity(bundle, entity) ==
  {i \in 1..Len(bundle) :
     entity \in {getAddr(bundle[i].paymasterAndData), getAddr(bundle[i].initCode)}}

\* C26: createBundle skips an op whose paymaster or factory is already
\* counted more than THROTTLED_ENTITY_BUNDLE_COUNT times in stakedEntityCount,
\* so no bundle holds more than THROTTLED_ENTITY_BUNDLE_COUNT + 1 ops that
\* share a paymaster or factory
C26_EntityCapInBundle ==
  \A p \in Procs : \A entity \in LowerAddrs :
    /\ loc[p].stakedEntityCount[entity] <= THROTTLED_ENTITY_BUNDLE_COUNT + 1
    /\ Cardinality(SharingEntity(loc[p].bundle, entity)) <= THROTTLED_ENTITY_BUNDLE_COUNT + 1

\* ---- the per-sender quota: an unstaked account 0xaa sends ops with nonces
\* 0..4, a second account 0xbb sends one op and then replaces it by one that
\* names 0xaa as its paymaster; the second validation passes for the ops of
\* 0xaa and fails for those of 0xbb; 0xbb can be blacklisted ----

OpQ(k) == UserOp("0xaa", k, "0x", "0x", 20, 20, 1)
OpT0 == UserOp("0xbb", 0, "0x", "0x", 10, 10, 1)
OpT1 == UserOp("0xbb", 0, "0x", "0xaa", 11, 11, 1)
QuotaNonces == 0..MAX_MEMPOOL_USEROPS_PER_SENDER

\* what the clients send next: 0xaa its lowest nonce that is not in the
\* mempool, 0xbb its op or, once that is in the mempool, the replacement
OpsQuota ==
  {OpQ(k) : k \in {n \in QuotaNonces :
                     /\ OpQ(n) \notin OpsOf(mempool)
                     /\ \A m \in QuotaNonces : m < n => OpQ(m) \in OpsOf(mempool)}}
    \cup (IF OpT0 \in OpsOf(mempool) THEN {OpT1}
          ELSE IF OpT1 \in OpsOf(mempool) THEN {} ELSE {OpT0})

NextQuota ==
  \/ \E op \in OpsQuota :
       /\ Offered(MaxLoad, MaxLoad + 1, MaxLoad + 1)
       /\ Submit("rpc1", op)
  \/ SuEnter("rpc1")
  \/ SuValidated("rpc1", TRUE, FALSE, FALSE, FALSE, 1)
  \/ SuAdd("rpc1")
  \/ SendBundleNow("debug")
  \/ \E p \in BuildersG : NbEnter(p)
  \/ \E p \in BuildersG : HpeBlock(p)
  \/ \E p \in BuildersG : HpeQuery(p)
  \/ \E p \in BuildersG :
       /\ pc[p] = "cb_validate"
       /\ CbValidated(p, Current(p).sender = "0xaa", ValidationResult({}, 1, 1))
  \/ \E p \in BuildersG : SbSendError(p, FALSE)
  \/ AddBlacklist("0xbb")
  \/ SetBundlingMode("manual")

SpecQuota == Init /\ [][NextQuota]_vars

\* C27: addUserOp stores no op, as a new entry or as a replacement, whose
\* sender, paymaster or factory has status BANNED when addUserOp is called
C27_NoBannedStored ==
  [][\A p \in RpcProcs :
       AddStep(p) =>
         \A a \in {loc[p].userOp.sender, getAddr(loc[p].userOp.paymasterAndData),
                    getAddr(loc[p].userOp.initCode)} :
           getStatus(a) # BANNED]_vars

\* the mempool entries whose sender is account a
EntriesOfSender(a) ==
  {i \in 1..Len(mempool) : toLowerCase(mempool[i].userOp.sender) = a}

\* C28: a sender that is not whitelisted and not staked (no sender of this
\* specification is staked) has at most MAX_MEMPOOL_USEROPS_PER_SENDER
\* entries in the mempool
C28_SenderQuota ==
  \A a \in LowerAddrs :
    (\A w \in whitelist : toLowerCase(w) # a) =>
      Cardinality(EntriesOfSender(a)) <= MAX_MEMPOOL_USEROPS_PER_SENDER

\* C29: addUserOp accepts an op of an unstaked sender of status OK that has
\* fewer than MAX_MEMPOOL_USEROPS_PER_SENDER entries, when the op has a
\* fresh nonce, no paymaster, no factory and gives no address a second
\* role, whatever adds were rejected before
C29_RejectedAddsConsumeNoQuota ==
  [][\A p \in RpcProcs :
       (/\ Steps(p, "su_hash")
        /\ ~loc[p].senderInfo.staked
        /\ getStatus(loc[p].userOp.sender) = OK
        /\ Cardinality(EntriesOfSender(toLowerCase(loc[p].userOp.sender)))
             < MAX_MEMPOOL_USEROPS_PER_SENDER
        /\ \A i \in EntriesOfSender(toLowerCase(loc[p].userOp.sender)) :
             mempool[i].userOp.nonce # loc[p].userOp.nonce
        /\ getAddr(loc[p].userOp.paymasterAndData) = Null
        /\ getAddr(loc[p].userOp.initCode) = Null
        /\ ~SecondRole(loc[p].userOp))
       => /\ mempool' = Append(mempool, MempoolEntry(loc[p].userOp, loc[p].prefund))
          /\ thrown' = <<>>]_vars

\* ---- an op that alone exceeds maxBundleGas, with a lower priority fee than
\* an op that fits; every second validation passes, no storage is shared ----

OpBig == UserOp("0xaa", 0, "0x", "0x", 20, 10, maxBundleGas)
OpSmall == UserOp("0xbb", 0, "0x", "0x", 20, 11, 1)
OpsFit == {OpBig, OpSmall}

NextFit ==
  \/ \E op \in OpsFit : SendUserOperation("rpc1", op)
  \/ SuEnter("rpc1")
  \/ SuValidated("rpc1", TRUE, FALSE, FALSE, FALSE, 1)
  \/ SuAdd("rpc1")
  \/ SendBundleNow("debug")
  \/ \E p \in BuildersG : NbEnter(p)
  \/ \E p \in BuildersG : HpeBlock(p)
  \/ \E p \in BuildersG : HpeQuery(p)
  \/ \E p \in BuildersG : CbValidated(p, TRUE, ValidationResult({}, 1, 1))
  \/ \E p \in BuildersG : SbSendOk(p)
  \/ LiveEvent

SpecFit == Init /\ [][NextFit]_vars

\* entry of a snapshot that could be bundled alone: it is still in the
\* mempool, the EntryPoint has not executed it (it validates), it has no paymaster or factory, and its own gas cost (preOpGas of
\* the second validation, 1 here, plus callGasLimit) is within maxBundleGas
FitsAlone(entry) ==
  /\ entry \in SeqToSet(mempool)
  /\ entry.userOpHash \notin minedHashes
  /\ getAddr(entry.userOp.paymasterAndData) = Null
  /\ getAddr(entry.userOp.initCode) = Null
  /\ 1 + entry.userOp.callGasLimit <= maxBundleGas

\* C30: an op that cannot fit does not block the others: when createBundle
\* returns and its list held an op that passes the second validation, has no
\* storage conflict, no entity that is not OK and an own gas cost within
\* maxBundleGas, the bundle is not empty (sendBundle is called)
C30_FittingOpIsBundled ==
  [][\A p \in Procs :
       (/\ Steps(p, "cb_validate")
        /\ pc'[p] \notin {"cb_validate", "cb_balanceOf"}
        /\ \E i \in 1..Len(loc[p].snap) : FitsAlone(loc[p].snap[i]))
       => pc'[p] = "sb_send" /\ loc'[p].bundle # <<>>]_vars

\* ---- what a FailedOp revert leaves behind ----

\* crashedHandleOps was applied to address a and nothing reset its entry since
\* (no action of SpecFailedOp lowers opsSeen)
Punished(a) ==
  a # Null /\ entries[toLowerCase(a)] # NoEntry /\ entries[toLowerCase(a)].opsSeen >= 10000

\* the ops a step of createBundle admits to the bundle of p
Admitted(p) ==
  IF Len(loc'[p].bundle) > Len(loc[p].bundle)
  THEN SeqToSet(loc'[p].bundle) \ SeqToSet(loc[p].bundle) ELSE {}

\* C31: after a FailedOp revert the op it names is not admitted by a later
\* build: no op is admitted whose factory or paymaster (AA1, AA3) or whose
\* sender (AA2) was punished by crashedHandleOps and not reset since
C31_FailedOpNotReadmitted ==
  [][\A p \in Procs : \A op \in Admitted(p) :
       /\ ~Punished(getAddr(op.initCode))
       /\ ~Punished(getAddr(op.paymasterAndData))
       /\ ~Punished(op.sender)]_vars

\* ---- entities of every status: 0xaa is sponsored by paymaster 0xcc, 0xbb is
\* deployed by factory 0xdd, 0xe1 names no entity; debug_bundler_setReputation
\* moves 0xcc and 0xdd to THROTTLED (opsSeen 110) or BANNED (opsSeen 510) ----

OpE1 == UserOp("0xaa", 0, "0x", "0xcc", 10, 10, 1)
OpE2 == UserOp("0xbb", 0, "0xdd", "0x", 10, 11, 1)
OpE3 == UserOp("0xe1", 0, "0x", "0x", 10, 12, 1)
OpsEntities == {OpE1, OpE2, OpE3}
EntityDumps == {<<ReputationEntry(a, sn, 0)>> : a \in {"0xcc", "0xdd"}, sn \in {110, 510}}

\* the opsSeen counters that still admit an op: below the bound, or as a
\* dump has just set them
CanBumpEntity(e) ==
  IF CanBump(e) THEN TRUE ELSE e.opsSeen \in {110, 510}

\* eth_sendUserOperation while the counters have room
SendEntityOp(p, op) ==
  /\ Len(mempool) < MaxMempool
  /\ \A a \in LowerAddrs : entryCount[a] < MaxEntryCount
  /\ \A a \in RepAddrs : CanBumpEntity(entries[a])
  /\ Submit(p, op)

NextEntities ==
  \/ \E op \in OpsEntities : SendEntityOp("rpc1", op)
  \/ SuEnter("rpc1")
  \/ SuValidated("rpc1", TRUE, FALSE, FALSE, FALSE, 1)
  \/ SuAdd("rpc1")
  \/ NbEnter("rpc1")
  \/ HpeBlock("rpc1")
  \/ HpeQuery("rpc1")
  \/ \E ok \in BOOLEAN : CbValidated("rpc1", ok, ValidationResult({}, 1, 1))
  \/ CbBalanceOf("rpc1", 1)
  \/ SbSendOk("rpc1")
  \/ \E d \in EntityDumps : SetReputation(d)

SpecEntities == Init /\ [][NextEntities]_vars

\* p is inside the loop of createBundle or holds its result
InBuild(pcl) == pcl \in {"cb_validate", "cb_balanceOf", "sb_send"}

\* this step of p runs a part of the loop of createBundle and leaves p in it
BuildStep(p) ==
  /\ \/ Steps(p, "hpe_query") /\ loc[p].ctx = "bundle"
     \/ Steps(p, "cb_validate")
     \/ Steps(p, "cb_balanceOf")
  /\ InBuild(pc'[p])

\* the entries of the list that this step of createBundle passed over without
\* a second validation: those before the entry at which it stops
PassedOver(p) ==
  LET first == IF pc[p] = "hpe_query" THEN 1 ELSE loc[p].i + 1
  IN {loc'[p].snap[j] : j \in first..(loc'[p].i - 1)}

\* the status the loop reads for the paymaster and the factory of an entry
EntityStatuses(entry) ==
  {statusOf(entries', whitelist', blackList', getAddr(entry.userOp.paymasterAndData)),
   statusOf(entries', whitelist', blackList', getAddr(entry.userOp.initCode))}

\* the number of roles (sender, paymaster, factory) address a has in userOp
RolesIn(userOp, a) ==
  (IF toLowerCase(userOp.sender) = a THEN 1 ELSE 0)
    + (IF getAddr(userOp.paymasterAndData) = a THEN 1 ELSE 0)
    + (IF getAddr(userOp.initCode) = a THEN 1 ELSE 0)

RECURSIVE SumRoles(_, _)
SumRoles(ops, a) ==
  IF ops = {} THEN 0
  ELSE LET op == CHOOSE o \in ops : TRUE
       IN RolesIn(op, a) + SumRoles(ops \ {op}, a)

\* C32: the op createBundle sends to its second validation has no BANNED and
\* no THROTTLED paymaster or factory at that moment; an entry passed over with
\* a BANNED paymaster or factory has left the mempool, an entry passed over
\* for a THROTTLED one is still there, and every entry count went down by
\* exactly the roles of the entries that left
C32_EntityStatusInBuild ==
  [][\A p \in Procs :
       BuildStep(p) =>
         /\ (pc'[p] = "cb_validate" /\ loc'[p].i # loc[p].i) =>
              EntityStatuses(loc'[p].snap[loc'[p].i]) \cap {BANNED, THROTTLED} = {}
         /\ \A entry \in PassedOver(p) :
              IF BANNED \in EntityStatuses(entry)
              THEN entry \notin SeqToSet(mempool')
              ELSE (THROTTLED \in EntityStatuses(entry)
                    /\ (pc[p] = "hpe_query" \/ entry \in SeqToSet(mempool)))
                   => entry \in SeqToSet(mempool')
         /\ \A a \in LowerAddrs :
              entryCount'[a] = Max(0, entryCount[a] - SumRoles(Leaving, a))]_vars

\* a build has passed over an entry with a THROTTLED paymaster, which is still
\* in the mempool, and one with a BANNED factory, which is not, and has
\* admitted a third op
C32_Witness ==
  \E p \in Procs :
    /\ pc[p] = "sb_send"
    /\ loc[p].bundle = <<OpE3>>
    /\ \E e1, e2 \in SeqToSet(loc[p].snap) :
         /\ e1.userOp = OpE1 /\ getStatus("0xcc") = THROTTLED /\ e1 \in SeqToSet(mempool)
         /\ e2.userOp = OpE2 /\ getStatus("0xdd") = BANNED /\ e2 \notin SeqToSet(mempool)
         /\ entryCount["0xdd"] = 0 /\ entryCount["0xcc"] = 1

\* ---- second validations with fixed outcomes: the validation of the op of
\* 0xaa reads the storage of account 0xbb, that of 0xbb throws, that of 0xdd
\* reads its own storage only; bundles are built on debug_bundler_sendBundleNow ----

OpC1 == UserOp("0xaa", 0, "0x", "0x", 10, 10, 1)
OpC2 == UserOp("0xbb", 0, "0x", "0x", 10, 11, 1)
OpC3 == UserOp("0xdd", 0, "0x", "0x", 10, 12, 1)
OpsConflict == {OpC1, OpC2, OpC3}

\* the keys of the storageMap that the second validation of userOp returns
storageMapKeys(userOp) == IF userOp = OpC1 THEN {"0xaa", "0xBB"} ELSE {userOp.sender}

\* the second validation of the current op of p throws
SecondValidationThrows(p) == Current(p) = OpC2 \/ loc[p].mined

ValidateInBuild(p) ==
  /\ pc[p] = "cb_validate"
  /\ CbValidated(p, ~SecondValidationThrows(p),
                 ValidationResult(storageMapKeys(Current(p)), 1, 1))

NextConflict ==
  \/ \E op \in OpsConflict : SendUserOperation("rpc1", op)
  \/ SuEnter("rpc1")
  \/ SuValidated("rpc1", TRUE, FALSE, FALSE, FALSE, 1)
  \/ SuAdd("rpc1")
  \/ SetBundlingMode("manual")
  \/ SendBundleNow("debug")
  \/ \E p \in BuildersG : NbEnter(p)
  \/ \E p \in BuildersG : HpeBlock(p)
  \/ \E p \in BuildersG : HpeQuery(p)
  \/ \E p \in BuildersG : ValidateInBuild(p)
  \/ \E p \in BuildersG : SbSendOk(p)

SpecConflict == Init /\ [][NextConflict]_vars

\* the loop goes on after the current entry of p: the next entry whose sender
\* is not yet in the bundle is sent to its second validation, and the build
\* ends when there is none (no op of this specification names an entity)
ContinuesWithNext(p) ==
  LET l == loc[p]
      rest == {j \in (l.i + 1)..Len(l.snap) : l.snap[j].userOp.sender \notin l.senders}
  IN IF rest = {} THEN pc'[p] # "cb_validate"
     ELSE /\ pc'[p] = "cb_validate"
          /\ loc'[p].snap = l.snap /\ loc'[p].bundle = l.bundle
          /\ \A j \in rest : loc'[p].i <= j
          /\ loc'[p].i \in rest

\* C33: in createBundle an op whose second validation throws is removed from
\* the mempool and not bundled, an op whose storageMap names another known
\* sender is not bundled and the mempool and the entry counts stay as they
\* are, and in both cases the loop goes on with the next op
C33_SecondValidationSkips ==
  [][\A p \in Procs :
       Steps(p, "cb_validate") =>
         /\ SecondValidationThrows(p) =>
              /\ Current(p) \notin OpsOf(mempool')
              /\ Current(p) \notin SeqToSet(loc'[p].bundle)
              /\ ContinuesWithNext(p)
         /\ (~SecondValidationThrows(p) /\ Current(p) = OpC1 /\ "0xbb" \in loc[p].known) =>
              /\ Current(p) \notin SeqToSet(loc'[p].bundle)
              /\ mempool' = mempool /\ entryCount' = entryCount
              /\ ContinuesWithNext(p)]_vars

\* a build has skipped the op of 0xaa for its storage conflict with 0xbb and
\* left it in the mempool, has removed the op of 0xbb, whose validation threw,
\* and has bundled the op of 0xdd
C33_Witness ==
  \E p \in Procs :
    /\ pc[p] = "sb_send"
    /\ OpsOf(loc[p].snap) = OpsConflict
    /\ loc[p].bundle = <<OpC3>>
    /\ OpsOf(mempool) = {OpC1, OpC3}
    /\ entryCount["0xaa"] = 1 /\ entryCount["0xbb"] = 0

\* ---- three ops in inclusion order: one that fits, one that overflows
\* maxBundleGas on top of it, one that would still fit; every second
\* validation of an op that is not yet mined passes with preOpGas 1 ----

OpH1 == UserOp("0xaa", 0, "0x", "0x", 30, 30, 1)
OpH2 == UserOp("0xbb", 0, "0x", "0x", 20, 20, 2)
OpH3 == UserOp("0xdd", 0, "0x", "0x", 10, 10, 1)
OpsStop == {OpH1, OpH2, OpH3}

PassInBuild(p) ==
  /\ pc[p] = "cb_validate"
  /\ CbValidated(p, ~loc[p].mined, ValidationResult({}, 1, 1))

NextStop ==
  \/ \E op \in OpsStop : SendUserOperation("rpc1", op)
  \/ SuEnter("rpc1")
  \/ SuValidated("rpc1", TRUE, FALSE, FALSE, FALSE, 1)
  \/ SuAdd("rpc1")
  \/ SetBundlingMode("manual")
  \/ SendBundleNow("debug")
  \/ \E p \in BuildersG : NbEnter(p)
  \/ \E p \in BuildersG : HpeBlock(p)
  \/ \E p \in BuildersG : HpeQuery(p)
  \/ \E p \in BuildersG : PassInBuild(p)
  \/ \E p \in BuildersG : SbSendOk(p)

SpecStop == Init /\ [][NextStop]_vars

\* the second validation of the current op of p has passed and the op does
\* not fit: totalGas + preOpGas + callGasLimit is above maxBundleGas
Overflows(p) ==
  /\ Steps(p, "cb_validate")
  /\ ~loc[p].mined
  /\ loc[p].totalGas + 1 + Current(p).callGasLimit > maxBundleGas

\* C34: createBundle stops at the first op that does not fit: no later op is
\* examined or admitted, the op stays in the mempool, and the ops admitted
\* before it are the bundle that is returned
C34_StopsAtOverflow ==
  [][\A p \in Procs :
       Overflows(p) =>
         /\ pc'[p] \notin {"cb_validate", "cb_balanceOf"}
         /\ mempool' = mempool /\ entryCount' = entryCount
         /\ Current(p) \in OpsOf(mempool) => Current(p) \in OpsOf(mempool')
         /\ IF loc[p].bundle = <<>> THEN pc'[p] # "sb_send"
            ELSE /\ pc'[p] = "sb_send"
                 /\ loc'[p].bundle = loc[p].bundle
                 /\ loc'[p].i = loc[p].i]_vars

\* a build admitted the first op, stopped at the second, which overflows, and
\* never came to the third, which would fit; all three are in the mempool
C34_Witness ==
  \E p \in Procs :
    /\ pc[p] = "sb_send"
    /\ Len(loc[p].snap) = 3
    /\ loc[p].i = 2
    /\ loc[p].snap[2].userOp = OpH2
    /\ loc[p].bundle = <<loc[p].snap[1].userOp>>
    /\ loc[p].totalGas + 1 + loc[p].snap[3].userOp.callGasLimit <= maxBundleGas
    /\ OpsOf(mempool) = OpsStop

\* ---- the reputation checks of addUserOp on the account: 0xaa sends ops
\* with the nonces 0, 1, 2, ... in order, staked or not; the whitelist and the
\* blacklist receive a spelling of its address, and a dump makes it THROTTLED ----

OpK(k) == UserOp("0xaa", k, "0x", "0x", 10, 10, 0)
ThrottledDump == <<ReputationEntry("0xaa", 200, 0)>>

\* the opsSeen counters that still admit an op: a dump, or a few ops after it
CanBumpStake(e) ==
  IF e = NoEntry THEN TRUE ELSE e.opsSeen % 100 <= MaxLoad

\* the next op of the account arrives
SendStakeOp(p) ==
  /\ Len(mempool) <= MAX_MEMPOOL_USEROPS_PER_SENDER
  /\ \A a \in LowerAddrs : entryCount[a] <= MaxLoad
  /\ \A a \in RepAddrs : CanBumpStake(entries[a])
  /\ Submit(p, OpK(Len(mempool)))

NextStake ==
  \/ SendStakeOp("rpc1")
  \/ SuEnter("rpc1")
  \/ \E sStaked \in BOOLEAN : SuValidated("rpc1", TRUE, sStaked, FALSE, FALSE, 1)
  \/ SuAdd("rpc1")
  \/ NbEnter("rpc1")
  \/ HpeBlock("rpc1")
  \/ HpeQuery("rpc1")
  \/ CbValidated("rpc1", TRUE, ValidationResult({}, 0, 1))
  \/ SbSendError("rpc1", FALSE)
  \/ SetBundlingMode("manual")
  \/ \E a \in {"0xaa", "0xAA"} : AddWhitelist(a)
  \/ AddBlacklist("0xaa")
  \/ SetReputation(ThrottledDump)

SpecStake == Init /\ [][NextStake]_vars

\* the error the reputation rule gives for one entity whose entry count,
\* with the op being added, is cnt
ReputationRule(info, cnt, allowance) ==
  IF getStatus(info.addr) = BANNED THEN "Reputation"
  ELSE IF cnt > THROTTLED_ENTITY_MEMPOOL_COUNT /\ getStatus(info.addr) = THROTTLED
    THEN "Reputation"
  ELSE IF cnt > allowance /\ Unlisted(whitelist, info.addr) /\ ~info.staked
    THEN "InsufficientStake"
  ELSE "ok"

\* C35: for an op with a new (sender, nonce) addUserOp rejects with
\* Reputation when the account is BANNED, or THROTTLED with an entry count
\* above 4, and with InsufficientStake when the count is above
\* MAX_MEMPOOL_USEROPS_PER_SENDER and the account is neither whitelisted nor
\* staked; an account that passes the rule is not rejected by it
C35_ReputationRuleOnAdd ==
  [][\A p \in RpcProcs :
       (/\ Steps(p, "su_hash")
        /\ _findBySenderNonce(mempool, loc[p].userOp.sender, loc[p].userOp.nonce) = 0)
       => LET l == loc[p]
              r == addUserOp(mempool, entryCount, entries, l.userOp, l.prefund,
                             l.senderInfo, l.paymasterInfo, l.factoryInfo)
              rule == ReputationRule(l.senderInfo,
                                     entryCount[toLowerCase(l.userOp.sender)] + 1,
                                     MAX_MEMPOOL_USEROPS_PER_SENDER)
          IN /\ r.err = rule
             /\ rule # "ok" => thrown' = <<p, "caller">> /\ mempool' = mempool
             /\ rule = "ok" => thrown' = <<>> /\ mempool' # mempool]_vars

\* ---- a punished address and the hourly decay ----

\* getStatus gives BANNED for entry e under the parameters prm (no list names
\* the address)
BannedUnder(prm, e) ==
  e.opsSeen \div prm.minInclusionDenominator > e.opsIncluded + prm.banSlack

\* crashedHandleOps has punished address a and no inclusion was credited to
\* it since
FreshlyPunished(ent, a) ==
  ent[a] # NoEntry /\ ent[a].opsSeen >= 10000 /\ ent[a].opsIncluded = 0

\* C36: an address that is on no list has status BANNED right after
\* crashedHandleOps punished it, under both parameter profiles, and is still
\* BANNED after the next hourlyCron when no inclusion was credited to it
C36_PunishedStaysBanned ==
  [][\A a \in LowerAddrs :
       (Unlisted(whitelist, a) /\ Unlisted(blackList, a)) =>
         /\ (entries' = crashedHandleOps(entries, a) /\ entries' # entries) =>
              /\ statusOf(entries', whitelist', blackList', a) = BANNED
              /\ BannedUnder(BundlerReputationParams, entries'[a])
              /\ BannedUnder(NonBundlerReputationParams, entries'[a])
         /\ (entries' = hourlyCron(entries) /\ FreshlyPunished(entries, a)) =>
              statusOf(entries', whitelist', blackList', a) = BANNED]_vars

\* ---- the event cursor ----

\* C37: every handled event sets lastBlock to its blockNumber + 1 (the live
\* callback handles the head of the subscription queue), and once
\* initialised the cursor never decreases, whatever the interleaving of
\* handlePastEvents replays and live callbacks
C37_CursorNeverDecreases ==
  [][/\ (live # <<>> /\ live' = Tail(live)) => lastBlock' = Head(live).blockNumber + 1
     /\ lastBlock # 0 => lastBlock' >= lastBlock]_vars

----------------------------------------------------------------------------
(* The trace of one debug_traceCall: geth drives the tracer *)

TraceValues == {"0x0", "0x1"}

\* the rest of the program does not move
TraceOnly ==
  UNCHANGED <<mempool, entryCount, entries, whitelist, blackList, execMutex,
              bundleMutex, pc, loc, maxMempoolSize, autoInterval, timers,
              lastBlock, chain, live, removed, thrown, pending, storageMap>>

\* the contract whose code runs, and its depth
Executing == trace.frames[Len(trace.frames)]
Depth == Len(trace.frames)

\* room for n more callbacks in a trace that has not returned; a step whose
\* gas is short finds a currentLevel to mark
CanTrace(n, gas) ==
  /\ trace.frames # <<>>
  /\ Len(trace.steps) + n <= MaxTrace
  /\ gas < 2300 => tracer.topLevelCallCounter > 0

Callback(cb, log) == [cb |-> cb, log |-> log]

\* debug_traceCall starts with a new tracer object
TraceStart ==
  /\ trace # NoTrace
  /\ tracer' = bundlerCollectorTracer
  /\ trace' = NoTrace
  /\ TraceOnly

\* an opcode that stays in its frame
TraceStep(op, gas, addr, slot, value, topic, len) ==
  /\ CanTrace(1, gas)
  /\ LET log == LogStep(op, Depth, gas, 2300, Executing, addr, slot, value, topic, len)
     IN /\ tracer' = step(tracer, log)
        /\ trace' = [trace EXCEPT !.steps = Append(@, Callback("step", log))]
  /\ TraceOnly

\* CALL: step, then enter for the new frame
TraceCall(op, to) ==
  /\ CanTrace(2, 5000)
  /\ Depth < MaxDepth
  /\ LET log == LogStep(op, Depth, 5000, 2300, Executing, to, Null, Null, Null, 0)
         frame == [type |-> op, from |-> Executing, to |-> to]
     IN /\ tracer' = enter(step(tracer, log), frame)
        /\ trace' = [steps |-> trace.steps \o <<Callback("step", log), Callback("enter", log)>>,
                     frames |-> Append(trace.frames, to)]
  /\ TraceOnly

\* RETURN or REVERT: step, then exit for the frame that ends unless it is
\* the outermost one
TraceReturn(op) ==
  /\ CanTrace(IF Depth > 1 THEN 2 ELSE 1, 5000)
  /\ LET log == LogStep(op, Depth, 5000, 2300, Executing, Null, Null, Null, Null, 0)
         frame == [error |-> op = "REVERT", gasUsed |-> 1]
     IN IF Depth > 1
        THEN /\ tracer' = exit(step(tracer, log), frame)
             /\ trace' = [steps |-> trace.steps \o <<Callback("step", log), Callback("exit", log)>>,
                          frames |-> SubSeq(trace.frames, 1, Depth - 1)]
        ELSE /\ tracer' = step(tracer, log)
             /\ trace' = [steps |-> Append(trace.steps, Callback("step", log)),
                          frames |-> <<>>]
  /\ TraceOnly

\* ---- storage reads and writes under the calls of the EntryPoint ----

NextAccess ==
  \/ TraceStart
  \/ \E to \in TraceAddrs : TraceCall("CALL", to)
  \/ TraceReturn("RETURN")
  \/ \E slot \in TraceSlots, value \in TraceValues :
       TraceStep("SLOAD", 5000, Null, slot, value, Null, 0)
  \/ \E slot \in TraceSlots : TraceStep("SSTORE", 5000, Null, slot, Null, Null, 0)

SpecAccess == Init /\ [][NextAccess]_vars

\* the step callbacks of the trace, by index
IsStep(i) == trace.steps[i].cb = "step"
\* the depth-1 calls, which open the top-level call frames
TopCalls ==
  {i \in 1..Len(trace.steps) :
     IsStep(i) /\ trace.steps[i].log.depth = 1
       /\ trace.steps[i].log.op \in {"CALL", "STATICCALL"}}
FrameStart(k) == CHOOSE i \in TopCalls : Cardinality({j \in TopCalls : j <= i}) = k
\* the steps of opcode op on slot s of contract a inside the k-th top-level frame
FrameSteps(k, op, a, s) ==
  {i \in 1..Len(trace.steps) :
     /\ IsStep(i) /\ trace.steps[i].log.depth > 1
     /\ i > FrameStart(k) /\ \A j \in TopCalls : j > FrameStart(k) => i < j
     /\ trace.steps[i].log.op = op
     /\ trace.steps[i].log.contract = a /\ trace.steps[i].log.slot = s}
First(S) == CHOOSE i \in S : \A j \in S : i <= j

\* C38: within one top-level call frame reads[a][s] is the value of the
\* first SLOAD of slot s at address a, recorded only if no SSTORE to (a, s)
\* came before it and never overwritten, and writes[a][s] is the number of
\* SSTORE steps to (a, s) in that frame
C38_ReadsAndWrites ==
  \A k \in 1..Len(tracer.callsFromEntryPoint) : \A a \in TraceAddrs : \A s \in TraceSlots :
    LET access == tracer.callsFromEntryPoint[k].access[a]
        loads == FrameSteps(k, "SLOAD", a, s)
        stores == FrameSteps(k, "SSTORE", a, s)
    IN /\ access.writes[s] = Cardinality(stores)
       /\ access.reads[s] =
            IF loads # {} /\ \A j \in stores : j > First(loads)
            THEN trace.steps[First(loads)].log.value ELSE Null

\* a frame in which one slot was written and then read (no read recorded)
\* and another slot was read twice with different values (the first is kept)
C38_Witness ==
  \E k \in 1..Len(tracer.callsFromEntryPoint) : \E a \in TraceAddrs :
    LET access == tracer.callsFromEntryPoint[k].access[a]
    IN /\ access.writes["0x01"] = 1 /\ access.reads["0x01"] = Null
       /\ FrameSteps(k, "SLOAD", a, "0x01") # {}
       /\ access.reads["0x02"] = "0x0"
       /\ \E i \in FrameSteps(k, "SLOAD", a, "0x02") : trace.steps[i].log.value = "0x1"

\* ---- a trace with the stop marker: the EntryPoint calls 0xaa, logs with
\* the marker topic or another one; the called code writes a slot (with or
\* without gas for it), hashes, logs and looks at the code of 0xbb ----

NextCollect ==
  \/ TraceStart
  \/ TraceCall("CALL", "0xaa")
  \/ \E op \in {"RETURN", "REVERT"} : TraceReturn(op)
  \/ \E topic \in {stopCollectingTopic, "ddf252ad"} :
       TraceStep("LOG1", 5000, Null, Null, Null, topic, 0)
  \/ TraceStep("KECCAK256", 5000, Null, Null, Null, Null, 32)
  \/ \E gas \in {2000, 5000} : TraceStep("SSTORE", gas, Null, "0x01", Null, Null, 0)
  \/ TraceStep("EXTCODESIZE", 5000, "0xbb", Null, Null, Null, 0)

SpecCollect == Init /\ [][NextCollect]_vars

\* the depth-1 LOG1 steps of the trace that carry the stop marker
StopSteps ==
  {i \in 1..Len(trace.steps) :
     /\ IsStep(i) /\ trace.steps[i].log.depth = 1
     /\ trace.steps[i].log.op = "LOG1" /\ trace.steps[i].log.topic = stopCollectingTopic}

\* C39: after a depth-1 LOG1 step whose first topic is the stop marker,
\* collection halts for the rest of the trace: no later step, enter or exit
\* changes calls, callsFromEntryPoint, keccak or logs
C39_StopCollecting ==
  /\ [](StopSteps # {} => tracer.stopCollecting)
  /\ [][(StopSteps # {} /\ Len(trace'.steps) > Len(trace.steps))
          => result(tracer') = result(tracer)]_vars

\* after the stop marker the trace went on with a call, a write in the
\* called frame and its return, and none of them was collected
C39_Witness ==
  /\ StopSteps # {}
  /\ \E i \in StopSteps :
       /\ \E j \in (i + 1)..Len(trace.steps) : trace.steps[j].cb = "enter"
       /\ \E j \in (i + 1)..Len(trace.steps) : trace.steps[j].cb = "exit"
       /\ \E j \in (i + 1)..Len(trace.steps) :
            IsStep(j) /\ trace.steps[j].log.op = "SSTORE"
       /\ Len(tracer.logs) + Len(tracer.calls) + Len(tracer.callsFromEntryPoint) = 0

----------------------------------------------------------------------------
(* createBundle's storageMap: eth_getProof roots and merged validation maps *)

MergeRoots == {"0xr1", "0xr2"}
MergeEntries ==
  {NoStorage} \cup {RootHash(r) : r \in MergeRoots}
    \cup {SlotMap(slots) : slots \in [TraceSlots -> {Null} \cup TraceValues]}
\* the storageMap results of validateUserOp
ValidationStorageMaps == [TraceAddrs -> MergeEntries]

MergeOnly ==
  UNCHANGED <<mempool, entryCount, entries, whitelist, blackList, execMutex,
              bundleMutex, pc, loc, maxMempoolSize, autoInterval, timers,
              lastBlock, chain, live, removed, thrown, pending, tracer, trace>>

\* createBundle starts with an empty storageMap
NewStorageMap ==
  /\ storageMap # EmptyStorageMap
  /\ storageMap' = EmptyStorageMap
  /\ MergeOnly

\* storageMap[sender] = storageHash, from eth_getProof
SetAccountRoot(sender, storageHash) ==
  /\ storageMap' = [storageMap EXCEPT ![toLowerCase(sender)] = RootHash(storageHash)]
  /\ MergeOnly

\* mergeStorageMap(storageMap, validationResult.storageMap)
MergeValidation(validationStorageMap) ==
  /\ storageMap' = mergeStorageMap(storageMap, validationStorageMap)
  /\ MergeOnly

NextMerge ==
  \/ NewStorageMap
  \/ \E a \in TraceAddrs, r \in MergeRoots : SetAccountRoot(a, r)
  \/ \E v \in ValidationStorageMaps : MergeValidation(v)

SpecMerge == Init /\ [][NextMerge]_vars

\* what the merge rule gives address a from the merged entry m and the
\* entry e of the validation
MergedEntry(m, e) ==
  IF ~e.present THEN m
  ELSE IF e.root # Null THEN e
  ELSE IF m.root # Null THEN m
  ELSE [present |-> TRUE, root |-> Null,
        slots |-> [s \in TraceSlots |-> IF e.slots[s] # Null THEN e.slots[s] ELSE m.slots[s]]]

\* C40: mergeStorageMap(merged, v) gives every address the root of v if v has
\* one, else the root merged already has, else the union of the two slot
\* maps with the value of v on a common slot; an address absent from v is
\* unchanged, and merging v a second time changes nothing
C40_MergeStorageMap ==
  [][\A v \in ValidationStorageMaps :
       storageMap' = mergeStorageMap(storageMap, v) =>
         /\ \A a \in TraceAddrs : storageMap'[a] = MergedEntry(storageMap[a], v[a])
         /\ mergeStorageMap(storageMap', v) = storageMap']_vars

\* the map holds a root that slots of a later validation did not displace,
\* next to an address whose slots come from two validations
C40_Witness ==
  /\ storageMap["0xaa"] = RootHash("0xr1")
  /\ storageMap["0xbb"] = SlotMap([s \in TraceSlots |-> IF s = "0x01" THEN "0x0" ELSE "0x1"])

====
